---- MODULE Spec2Model ----
(***************************************************************************)
(* A model of bobbie, a project-configuration loader: the type inference   *)
(* applied to untyped settings (utilities._typify), the term matchers      *)
(* (filters.match_all / match_prefix / match_suffix), the view functions   *)
(* of parsers.py (get_keys, get_sections, ... and parse), the section      *)
(* accumulator of workshop.py, the type inference and default merging done *)
(* when a Settings store is constructed, and the operations of a store     *)
(* with a Parser bound as an attribute (Settings.add, Settings.delete,     *)
(* Parser.__get__ and Parser.__set__), Settings.inject, Settings.create,   *)
(* Settings.from_module, Settings.from_ini, Settings.subset, and the       *)
(* binding of parsers to the class of a store.                             *)
(*                                                                         *)
(* Python str values are TLA+ strings.  A Python dict is a sequence of     *)
(* pairs with distinct keys, in insertion order: <<key, value>> for a str  *)
(* key, and <<text, value, key>> for a key that is no str (see key_text).  *)
(* A Python value is a record with the fields kind, s, n, e, items and     *)
(* pairs (see PyStr, PyInt, PyBool, PyFloat, PyList and PyDict below).     *)
(***************************************************************************)
EXTENDS Integers, Sequences, FiniteSets, TLC

VARIABLES
    pc,             \* "call", "new" or "ready" before a call, then "done"
    args,           \* the arguments of the modelled call
    ret,            \* what the call returned or raised
    contents,       \* Settings.contents of the store
    defaults,       \* Settings.defaults
    filters_match,  \* the function the module attribute filters.match names
    parser,         \* the Parser bound as an attribute of the store's class
    new_dictionary, \* the store a call of subset returned, if one was made
    sharing         \* the sets of keys at which the store holds one dict

vars == <<pc, args, ret, contents, defaults, filters_match, parser,
         new_dictionary, sharing>>

(***************************************************************************)
(* Bounds of the model.                                                    *)
(***************************************************************************)
MaxRawLen == 3      \* longest generated raw string handed to _typify
MaxItemLen == 3     \* longest generated item handed to a matcher
MaxTerms == 2       \* longest tuple of terms
MaxSections == 2    \* most sections in a generated mapping
MaxKeys == 1        \* most keys in a generated section

(***************************************************************************)
(* Python values.                                                          *)
(***************************************************************************)
PyStr(text) ==
    [kind |-> "str", s |-> text, n |-> 0, e |-> 0, items |-> <<>>,
     pairs |-> <<>>]
PyInt(i) ==
    [kind |-> "int", s |-> "", n |-> i, e |-> 0, items |-> <<>>,
     pairs |-> <<>>]
PyBool(b) ==
    [kind |-> "bool", s |-> "", n |-> IF b THEN 1 ELSE 0, e |-> 0,
     items |-> <<>>, pairs |-> <<>>]
\* a finite float is mantissa * 10^exponent, the mantissa without trailing
\* zeros; s is "inf", "-inf" or "nan" for the special values
PyFloat(m, x) ==
    [kind |-> "float", s |-> "", n |-> m, e |-> x, items |-> <<>>,
     pairs |-> <<>>]
PyFloatSpecial(name) ==
    [kind |-> "float", s |-> name, n |-> 0, e |-> 0, items |-> <<>>,
     pairs |-> <<>>]
\* a nan is equal to nothing, itself included, so that what Python tells
\* one nan from another by is the object: n numbers the nan objects of a
\* call, and PyFloatSpecial("nan") is the object numbered 0
PyNan(object) ==
    [kind |-> "float", s |-> "nan", n |-> object, e |-> 0, items |-> <<>>,
     pairs |-> <<>>]
PyList(elems) ==
    [kind |-> "list", s |-> "", n |-> 0, e |-> 0, items |-> elems,
     pairs |-> <<>>]
\* a dict: its pairs in insertion order
PyDict(kvs) ==
    [kind |-> "dict", s |-> "", n |-> 0, e |-> 0, items |-> <<>>,
     pairs |-> kvs]
PyNone ==
    [kind |-> "none", s |-> "", n |-> 0, e |-> 0, items |-> <<>>,
     pairs |-> <<>>]

\* results of a call
Return(v) == [kind |-> "return", val |-> v, exc |-> ""]
None == [kind |-> "none", val |-> <<>>, exc |-> ""]
Raise(name) == [kind |-> "raise", val |-> <<>>, exc |-> name]
NoRet == [kind |-> "pending", val |-> <<>>, exc |-> ""]

(***************************************************************************)
(* Python str operations.                                                  *)
(***************************************************************************)

startswith(item, prefix) ==
    /\ Len(prefix) <= Len(item)
    /\ SubSeq(item, 1, Len(prefix)) = prefix

endswith(item, suffix) ==
    /\ Len(suffix) <= Len(item)
    /\ SubSeq(item, Len(item) - Len(suffix) + 1, Len(item)) = suffix

removesuffix(item, suffix) ==
    IF suffix # "" /\ endswith(item, suffix)
    THEN SubSeq(item, 1, Len(item) - Len(suffix))
    ELSE item

\* the cased characters up to U+00FF; a TLA+ string holds no character
\* beyond them
UpperCase == "ABCDEFGHIJKLMNOPQRSTUVWXYZÀÁÂÃÄÅÆÇÈÉÊËÌÍÎÏÐÑÒÓÔÕÖØÙÚÛÜÝÞ"
LowerCase == "abcdefghijklmnopqrstuvwxyzàáâãäåæçèéêëìíîïðñòóôõöøùúûüýþ"

LowerChar(c) ==
    IF \E i \in 1..Len(UpperCase) : SubSeq(UpperCase, i, i) = c
    THEN LET i == CHOOSE j \in 1..Len(UpperCase) :
                      SubSeq(UpperCase, j, j) = c
         IN SubSeq(LowerCase, i, i)
    ELSE c

RECURSIVE lower(_)
lower(text) ==
    IF text = "" THEN ""
    ELSE LowerChar(SubSeq(text, 1, 1)) \o lower(SubSeq(text, 2, Len(text)))

\* index of the first occurrence of sep in text, 0 when there is none
find(text, sep) ==
    LET hits == {i \in 1..(Len(text) - Len(sep) + 1) :
                    SubSeq(text, i, i + Len(sep) - 1) = sep}
    IN IF hits = {} THEN 0
       ELSE CHOOSE i \in hits : \A j \in hits : i <= j

RECURSIVE split(_, _)
split(text, sep) ==
    LET at == find(text, sep)
    IN IF at = 0 THEN <<text>>
       ELSE <<SubSeq(text, 1, at - 1)>>
            \o split(SubSeq(text, at + Len(sep), Len(text)), sep)

\* the white space that int() and float() drop from the two ends of a
\* literal: of the characters up to U+00FF those of C's isspace, which
\* leaves out U+001C to U+001F, and U+0085 and U+00A0
WhiteSpace == {" ", "\t", "\n", "\r", "\f", "", "", " "}

RECURSIVE Literal(_)
Literal(text) ==
    IF text # "" /\ SubSeq(text, 1, 1) \in WhiteSpace
    THEN Literal(SubSeq(text, 2, Len(text)))
    ELSE IF text # "" /\ SubSeq(text, Len(text), Len(text)) \in WhiteSpace
    THEN Literal(SubSeq(text, 1, Len(text) - 1))
    ELSE text

(***************************************************************************)
(* Python's int(str) and float(str), as far as _typify reads them: the     *)
(* literal is stripped of white space, may carry one sign, and its digits  *)
(* may be grouped by single underscores.                                   *)
(***************************************************************************)
Digits == "0123456789"

IsDigit(c) == \E i \in 1..10 : SubSeq(Digits, i, i) = c

DigitValue(c) == (CHOOSE i \in 1..10 : SubSeq(Digits, i, i) = c) - 1

\* digit (["_"] digit)*
IsDigitPart(text) ==
    /\ text # ""
    /\ \A i \in 1..Len(text) :
          \/ IsDigit(SubSeq(text, i, i))
          \/ /\ SubSeq(text, i, i) = "_"
             /\ 1 < i
             /\ i < Len(text)
             /\ IsDigit(SubSeq(text, i - 1, i - 1))
             /\ IsDigit(SubSeq(text, i + 1, i + 1))

RECURSIVE DigitPartValue(_, _)
DigitPartValue(text, acc) ==
    IF text = "" THEN acc
    ELSE LET c == SubSeq(text, 1, 1)
             rest == SubSeq(text, 2, Len(text))
         IN IF c = "_" THEN DigitPartValue(rest, acc)
            ELSE DigitPartValue(rest, 10 * acc + DigitValue(c))

\* the number of digits of a digit part
DigitCount(text) ==
    Cardinality({i \in 1..Len(text) : IsDigit(SubSeq(text, i, i))})

HasSign(text) == text # "" /\ SubSeq(text, 1, 1) \in {"+", "-"}

Unsigned(text) == IF HasSign(text) THEN SubSeq(text, 2, Len(text)) ELSE text

SignOf(text) == IF text # "" /\ SubSeq(text, 1, 1) = "-" THEN -1 ELSE 1

\* int(item) does not raise ValueError
IsIntLiteral(item) == IsDigitPart(Unsigned(Literal(item)))

IntValue(item) ==
    SignOf(Literal(item)) * DigitPartValue(Unsigned(Literal(item)), 0)

\* the mantissa of a float literal: digits ["." [digits]] or "." digits
IsMantissa(text) ==
    LET dot == find(text, ".")
        whole == SubSeq(text, 1, dot - 1)
        frac == SubSeq(text, dot + 1, Len(text))
    IN IF dot = 0 THEN IsDigitPart(text)
       ELSE /\ whole = "" \/ IsDigitPart(whole)
            /\ frac = "" \/ IsDigitPart(frac)
            /\ whole # "" \/ frac # ""

\* the exponent of a float literal: an optional sign and digits
IsExponent(text) == IsDigitPart(Unsigned(text))

\* position of the exponent letter, 0 when there is none
ExponentAt(text) ==
    LET e1 == find(text, "e")
        e2 == find(text, "E")
    IN IF e1 = 0 THEN e2
       ELSE IF e2 = 0 THEN e1
       ELSE IF e1 < e2 THEN e1 ELSE e2

FloatWords == {"inf", "infinity", "nan"}

\* float(item) does not raise ValueError
IsFloatLiteral(item) ==
    LET body == Unsigned(Literal(item))
        at == ExponentAt(body)
    IN \/ lower(body) \in FloatWords
       \/ /\ at = 0
          /\ IsMantissa(body)
       \/ /\ at > 0
          /\ IsMantissa(SubSeq(body, 1, at - 1))
          /\ IsExponent(SubSeq(body, at + 1, Len(body)))

\* a mantissa and exponent with the trailing zeros of the mantissa removed
RECURSIVE Normalised(_, _)
Normalised(m, x) ==
    IF m = 0 THEN PyFloat(0, 0)
    ELSE IF m % 10 = 0 THEN Normalised(m \div 10, x + 1)
    ELSE PyFloat(m, x)

\* the decimal digits of a positive integer, and its first ten digits with
\* zeros after the last
RECURSIVE DigitsOf(_)
DigitsOf(i) == IF i < 10 THEN <<i>> ELSE Append(DigitsOf(i \div 10), i % 10)

Leading(i) ==
    [k \in 1..10 |-> IF k <= Len(DigitsOf(i)) THEN DigitsOf(i)[k] ELSE 0]

After(a, b) ==
    \E k \in 1..10 : a[k] > b[k] /\ \A j \in 1..(k - 1) : a[j] = b[j]

(***************************************************************************)
(* float() gives a double: the value written is rounded to the nearest     *)
(* double, to the even one of two equally near, and the float is written   *)
(* here, as repr writes it, with the fewest digits that float() reads back *)
(* as the same double.  A mantissa has at most ten digits, so at 2^-1022   *)
(* and above, where a double has 53 bits, the float is the value as it is  *)
(* written.  Below 2^-1022 the doubles are the multiples of 2^-1074, and   *)
(* the rounding is worked out on natural numbers of some hundred digits,   *)
(* each a sequence of digits in base 10000, the least significant first.   *)
(***************************************************************************)
Base == 10000

RECURSIVE Limbs(_)
Limbs(i) == IF i = 0 THEN <<>> ELSE <<i % Base>> \o Limbs(i \div Base)

LimbAt(a, i) == IF i <= Len(a) THEN a[i] ELSE 0

\* the number that has a[i] + b[i] for its terms: a carry comes into a
\* place from the nearest lower place that does not hold Base - 1, when that
\* one holds Base or more
Plus(a, b) ==
    LET top == IF Len(a) > Len(b) THEN Len(a) ELSE Len(b)
        term == [i \in 1..(top + 1) |-> LimbAt(a, i) + LimbAt(b, i)] \o <<>>
        carry(i) == IF \E j \in 1..(i - 1) :
                          /\ term[j] >= Base
                          /\ \A k \in (j + 1)..(i - 1) : term[k] = Base - 1
                    THEN 1 ELSE 0
    IN [i \in 1..(top + 1) |-> (term[i] + carry(i)) % Base] \o <<>>

\* a times a factor below Base: what stays in each place, and what each
\* place hands to the next
Scaled(a, factor) ==
    Plus([i \in 1..Len(a) |-> (a[i] * factor) % Base],
         <<0>> \o [i \in 1..Len(a) |-> (a[i] * factor) \div Base])

RECURSIVE Times(_, _)
Times(a, b) ==
    IF b = <<>> THEN <<>>
    ELSE Plus(Scaled(a, Head(b)), <<0>> \o Times(a, Tail(b)))

Below(a, b) ==
    LET top == IF Len(a) > Len(b) THEN Len(a) ELSE Len(b)
    IN \E i \in 1..top :
          /\ LimbAt(a, i) < LimbAt(b, i)
          /\ \A j \in (i + 1)..top : LimbAt(a, j) = LimbAt(b, j)

TenTo(s) == <<1, 10, 100, 1000>>[s + 1]

\* the decimal digit of a that counts 10^i, and the number of them
DecimalAt(a, i) == (LimbAt(a, i \div 4 + 1) \div TenTo(i % 4)) % 10

Size(a) ==
    LET used == {i \in 0..(4 * Len(a) - 1) : DecimalAt(a, i) # 0}
    IN IF used = {} THEN 0
       ELSE 1 + CHOOSE i \in used : \A j \in used : j <= i

\* a modulo 10^j, and 10^j less that
Low(a, j) ==
    [i \in 1..((j + 3) \div 4) |->
        IF i <= j \div 4 THEN LimbAt(a, i) ELSE LimbAt(a, i) % TenTo(j % 4)]

High(a, j) ==
    Plus([i \in 1..((j + 3) \div 4) |->
             (IF i <= j \div 4 THEN Base - 1 ELSE TenTo(j % 4) - 1)
             - Low(a, j)[i]],
         <<1>>)

\* the n decimal digits of a from that of 10^j upwards, as a number
RECURSIVE Digits10(_, _, _)
Digits10(a, j, n) ==
    IF n = 0 THEN 0 ELSE DecimalAt(a, j) + 10 * Digits10(a, j + 1, n - 1)

\* 2^1074 and 5^1075
TwoTo1074 ==
    <<4784, 9349, 7410, 7707, 6330, 62, 8646, 2750, 1863, 2532, 3050, 6152,
      3414, 5233, 7695, 2358, 5651, 8100, 6340, 5955, 6491, 3355, 1810,
      6986, 4692, 8342, 74, 8562, 4506, 4727, 7678, 3976, 3412, 3216, 4209,
      9077, 4466, 6136, 5663, 4276, 1742, 9215, 8509, 4073, 3999, 7013,
      7686, 7934, 7385, 873, 3898, 1911, 1681, 8643, 7077, 9518, 1244, 1437,
      8370, 9603, 6891, 9534, 5679, 339, 2743, 3580, 6901, 1835, 1421, 9764,
      5664, 495, 7307, 1891, 3467, 2495, 1835, 3106, 3307, 225, 2024>>

FiveTo1075 ==
    <<8125, 3632, 6672, 1327, 9859, 5320, 3412, 3769, 1454, 2826, 3772,
      2138, 1396, 8545, 5131, 1028, 582, 497, 8324, 9496, 6679, 6948, 7918,
      2547, 836, 1369, 1893, 7255, 5550, 5244, 5657, 5599, 3027, 5628, 8792,
      3885, 9863, 3508, 6682, 8497, 7234, 186, 3891, 8042, 3732, 6239, 7963,
      8818, 3653, 1262, 5249, 6239, 9164, 3865, 1711, 6539, 487, 849, 5753,
      5300, 300, 9184, 4672, 1914, 8046, 1596, 4162, 7860, 7666, 4223, 6113,
      5166, 7458, 3553, 3405, 8951, 96, 6736, 6324, 4017, 5067, 577, 6193,
      9677, 9007, 3633, 4507, 7393, 3785, 2262, 8166, 2082, 4540, 9470,
      9659, 9770, 5499, 648, 3740, 56, 2722, 2728, 6465, 2276, 5746, 3579,
      9726, 2465, 5531, 7801, 3519, 8409, 3433, 9278, 1332, 5855, 2795,
      1928, 631, 9037, 9269, 8576, 15, 757, 5848, 8636, 3669, 6562, 2193,
      8249, 5767, 3704, 319, 5250, 5361, 9936, 284, 9318, 4435, 518, 4491,
      8392, 9085, 3922, 226, 1557, 6595, 5035, 631, 939, 539, 3980, 9387,
      9819, 9698, 5177, 2835, 4633, 8865, 2285, 3477, 8282, 8989, 9961, 817,
      1818, 6499, 5932, 437, 6351, 7753, 5033, 8412, 2792, 8221, 1623, 1307,
      2990, 1825, 686, 3411, 3964, 8284, 7208, 6232, 2920, 3282, 2470>>

\* The double k * 2^-1074 is given as v = 2k * 5^1075, its value in units
\* of 10^-1075, in which half the distance to the next double is 5^1075.
\* A decimal of n digits is read back as that double when it is less than
\* half the distance away: the first n digits of v, or one more in the
\* last place.  The nearer one for the least n that has one, as <<mantissa,
\* exponent>>
RECURSIVE Shortest(_, _)
Shortest(v, n) ==
    LET j == Size(v) - n
        down == Below(Low(v, j), FiveTo1075)
        up == Below(High(v, j), FiveTo1075)
    IN IF down /\ (~up \/ Below(Low(v, j), High(v, j)))
       THEN <<Digits10(v, j, n), j - 1075>>
       ELSE IF up THEN <<Digits10(v, j, n) + 1, j - 1075>>
       ELSE Shortest(v, n + 1)

\* the double nearest to m * 10^x, for m > 0 and m * 10^x < 2^-1022: k is
\* m * 2^1074 / 10^-x rounded to the nearest integer, to the even one from
\* half way
Subnormal(m, x) ==
    LET shift == (4 - ((-x) % 4)) % 4
        cut == (shift - x) \div 4
        units == Times(TwoTo1074, Limbs(m))
        parts == Scaled(units, TenTo(shift))
        whole == SubSeq(parts, cut + 1, Len(parts))
        half == LimbAt(parts, cut)
        above == \E i \in 1..(cut - 1) : LimbAt(parts, i) # 0
        more == \/ half > Base \div 2
                \/ /\ half = Base \div 2
                   /\ above \/ LimbAt(whole, 1) % 2 = 1
        k == IF more THEN Plus(whole, <<1>>) ELSE whole
        nearest == Shortest(Times(FiveTo1075, Plus(k, k)), 1)
    IN IF Size(k) = 0 THEN PyFloat(0, 0)
       ELSE Normalised(nearest[1], nearest[2])

\* A literal of at least 1.797693134862315807...e308, half way from the
\* largest double to 2^1024, is inf, and one of at most
\* 2.470328229206232720...e-324 = 2^-1075, half the smallest double, is
\* 0.0; one below 2^-1022 = 2.2250738585072014e-308 is rounded to a
\* multiple of 2^-1074.  (The first ten digits decide.)
Double(value) ==
    LET magnitude == IF value.n < 0 THEN -value.n ELSE value.n
        order == Len(DigitsOf(magnitude)) + value.e - 1
        rounded == Subnormal(magnitude, value.e)
    IN IF value.n = 0 THEN value
       ELSE IF \/ order > 308
               \/ /\ order = 308
                  /\ After(Leading(magnitude),
                           <<1, 7, 9, 7, 6, 9, 3, 1, 3, 4>>)
       THEN PyFloatSpecial(IF value.n < 0 THEN "-inf" ELSE "inf")
       ELSE IF \/ order < -324
               \/ /\ order = -324
                  /\ ~After(Leading(magnitude),
                            <<2, 4, 7, 0, 3, 2, 8, 2, 2, 9>>)
       THEN PyFloat(0, 0)
       ELSE IF \/ order < -308
               \/ /\ order = -308
                  /\ ~After(Leading(magnitude),
                            <<2, 2, 2, 5, 0, 7, 3, 8, 5, 8>>)
       THEN IF value.n < 0 THEN PyFloat(-rounded.n, rounded.e) ELSE rounded
       ELSE value

\* float(item).  The nan that it makes is the value of a setting and is
\* never made a key, so that one number, 0, serves for every such object
FloatValue(item) ==
    LET sign == SignOf(Literal(item))
        body == Unsigned(Literal(item))
        at == ExponentAt(body)
        mant == IF at = 0 THEN body ELSE SubSeq(body, 1, at - 1)
        expo == IF at = 0 THEN "" ELSE SubSeq(body, at + 1, Len(body))
        dot == find(mant, ".")
        whole == IF dot = 0 THEN mant ELSE SubSeq(mant, 1, dot - 1)
        frac == IF dot = 0 THEN "" ELSE SubSeq(mant, dot + 1, Len(mant))
        power == IF expo = "" THEN 0
                 ELSE SignOf(expo) * DigitPartValue(Unsigned(expo), 0)
    IN IF lower(body) = "nan" THEN PyFloatSpecial("nan")
       ELSE IF lower(body) \in FloatWords
       THEN PyFloatSpecial(IF sign < 0 THEN "-inf" ELSE "inf")
       ELSE Double(Normalised(
                       sign * DigitPartValue(whole \o frac, 0),
                       power - DigitCount(frac)))

(***************************************************************************)
(* utilities._typify: converts a str to int, float, bool or list.          *)
(***************************************************************************)
\* _typify with the float parse tried before the integer parse
RECURSIVE _typify_float_first(_)
_typify_float_first(item) ==
    IF item.kind # "str" THEN item
    ELSE IF IsFloatLiteral(item.s) THEN FloatValue(item.s)
    ELSE IF IsIntLiteral(item.s) THEN PyFloat(IntValue(item.s), 0)
    ELSE IF lower(item.s) \in {"true", "yes"} THEN PyBool(TRUE)
    ELSE IF lower(item.s) \in {"false", "no"} THEN PyBool(FALSE)
    ELSE IF find(item.s, ", ") > 0
    THEN LET pieces == split(item.s, ", ")
         IN PyList([i \in 1..Len(pieces) |->
                       _typify_float_first(PyStr(pieces[i]))])
    ELSE item

\* _typify, had it inferred the items of a list that it is given
RECURSIVE _typify_into_lists(_)
_typify_into_lists(item) ==
    IF item.kind = "list"
    THEN PyList([i \in 1..Len(item.items) |->
                    _typify_into_lists(item.items[i])])
    ELSE IF item.kind # "str" THEN item
    ELSE IF IsIntLiteral(item.s) THEN PyInt(IntValue(item.s))
    ELSE IF IsFloatLiteral(item.s) THEN FloatValue(item.s)
    ELSE IF lower(item.s) \in {"true", "yes"} THEN PyBool(TRUE)
    ELSE IF lower(item.s) \in {"false", "no"} THEN PyBool(FALSE)
    ELSE IF find(item.s, ", ") > 0
    THEN LET pieces == split(item.s, ", ")
         IN PyList([i \in 1..Len(pieces) |->
                       _typify_into_lists(PyStr(pieces[i]))])
    ELSE item

RECURSIVE _typify(_)
_typify(item) ==
    IF item.kind # "str" THEN item
    ELSE IF IsIntLiteral(item.s) THEN PyInt(IntValue(item.s))
    ELSE IF IsFloatLiteral(item.s) THEN FloatValue(item.s)
    ELSE IF lower(item.s) \in {"true", "yes"} THEN PyBool(TRUE)
    ELSE IF lower(item.s) \in {"false", "no"} THEN PyBool(FALSE)
    ELSE IF find(item.s, ", ") > 0
    THEN LET pieces == split(item.s, ", ")
         IN PyList([i \in 1..Len(pieces) |-> _typify(PyStr(pieces[i]))])
    ELSE item

(***************************************************************************)
(* Python dict operations.                                                 *)
(***************************************************************************)
\* A pair of a dict is <<key, value>> for a str key.  For a key that is no
\* str it is <<text, value, key>>, where text is the same for two keys
\* exactly when Python takes them for one key: equal numbers are one key,
\* as 1, 1.0 and True are, and a nan is one key with itself alone, so that
\* two nan objects are two keys.
key_text(key) ==
    CASE key.kind = "str" -> key.s
      [] key.kind = "none" -> "None"
      [] key.kind = "float" /\ key.s = "nan" ->
            IF key.n = 0 THEN "nan" ELSE "nan" \o ToString(key.n)
      [] key.kind = "float" /\ key.s # "" -> key.s
      [] OTHER -> LET number == Normalised(key.n, key.e)
                  IN ToString(number.n) \o "e" \o ToString(number.e)

KeyOf(kv) == IF Len(kv) = 3 THEN kv[3] ELSE PyStr(kv[1])

\* the key of the pair kv == key
SameKey(kv, key) ==
    IF key.kind = "str" THEN Len(kv) = 2 /\ kv[1] = key.s
    ELSE Len(kv) = 3 /\ kv[1] = key_text(key)

\* the str keys of a dict as they are, and the text of every other key
DictKeys(d) == [i \in 1..Len(d.pairs) |-> d.pairs[i][1]]

DictValues(d) == [i \in 1..Len(d.pairs) |-> d.pairs[i][2]]

\* key in d, d[key] and d[key] = v for any key: an existing key keeps its
\* place and its key object, a new key goes last
DictHasKey(d, key) == \E i \in 1..Len(d.pairs) : SameKey(d.pairs[i], key)

DictGetKey(d, key) ==
    d.pairs[CHOOSE i \in 1..Len(d.pairs) : SameKey(d.pairs[i], key)][2]

DictSetKey(d, key, v) ==
    IF DictHasKey(d, key)
    THEN PyDict([i \in 1..Len(d.pairs) |->
                    IF SameKey(d.pairs[i], key)
                    THEN [d.pairs[i] EXCEPT ![2] = v]
                    ELSE d.pairs[i]])
    ELSE PyDict(Append(d.pairs,
                       IF key.kind = "str" THEN <<key.s, v>>
                       ELSE <<key_text(key), v, key>>))

\* the same for the str key k
DictHas(d, k) ==
    \E i \in 1..Len(d.pairs) : Len(d.pairs[i]) = 2 /\ d.pairs[i][1] = k

DictGet(d, k) ==
    d.pairs[CHOOSE i \in 1..Len(d.pairs) :
                Len(d.pairs[i]) = 2 /\ d.pairs[i][1] = k][2]

DictSet(d, k, v) == DictSetKey(d, PyStr(k), v)

\* the str keys of a dict
KeySet(d) ==
    {d.pairs[i][1] : i \in {j \in 1..Len(d.pairs) : Len(d.pairs[j]) = 2}}

\* d.update(other), and a dict built from pairs in order
RECURSIVE DictUpdatePairs(_, _)
DictUpdatePairs(d, kvs) ==
    IF kvs = <<>> THEN d
    ELSE DictUpdatePairs(DictSetKey(d, KeyOf(kvs[1]), kvs[1][2]), Tail(kvs))

DictUpdate(d, other) == DictUpdatePairs(d, other.pairs)

DictFromPairs(kvs) == DictUpdatePairs(PyDict(<<>>), kvs)

\* del d[k]
DictDel(d, k) ==
    PyDict(SelectSeq(d.pairs, LAMBDA kv : ~(Len(kv) = 2 /\ kv[1] = k)))

\* what iterating over a value gives: the characters of a str, the items
\* of a list, the keys of a dict
Elements(value) ==
    CASE value.kind = "str" ->
            [i \in 1..Len(value.s) |-> PyStr(SubSeq(value.s, i, i))]
      [] value.kind = "list" -> value.items
      [] value.kind = "dict" ->
            [i \in 1..Len(value.pairs) |-> KeyOf(value.pairs[i])]
      [] OTHER -> <<>>

Updated(result, after) == [ret |-> result, entry |-> after]

\* entry.update(value) for a value without keys(): each element of value
\* is to be a sequence of a key and a value, and is put into entry before
\* the next is looked at
RECURSIVE update_from_sequence(_, _)
update_from_sequence(entry, elements) ==
    IF elements = <<>> THEN Updated(None, entry)
    ELSE LET element == Head(elements)
             pair == Elements(element)
         IN IF element.kind \notin {"str", "list", "dict"}
            THEN Updated(Raise("TypeError"), entry)
            ELSE IF Len(pair) # 2 THEN Updated(Raise("ValueError"), entry)
            ELSE IF pair[1].kind \in {"list", "dict"}
            THEN Updated(Raise("TypeError"), entry)
            ELSE update_from_sequence(
                     DictSetKey(entry, pair[1], pair[2]),
                     Tail(elements))

\* entry.update(value), entry being any value: only a dict has update; a
\* dict is updated with the pairs of a dict, or with the pairs that a str or
\* a list is made of, and a value that cannot be iterated over raises
\* TypeError.  The result, and the entry after the call
dict_update(entry, value) ==
    IF entry.kind # "dict" THEN Updated(Raise("AttributeError"), entry)
    ELSE IF value.kind = "dict" THEN Updated(None, DictUpdate(entry, value))
    ELSE IF value.kind \in {"str", "list"}
    THEN update_from_sequence(entry, Elements(value))
    ELSE Updated(Raise("TypeError"), entry)

(***************************************************************************)
(* utilities._drop_prefix_from_str and _drop_suffix_from_str.  Their first *)
(* parameter is positional-only.                                           *)
(***************************************************************************)
_drop_prefix_from_str(item, prefix, divider) ==
    LET joined == prefix \o divider
    IN IF startswith(item, joined)
       THEN SubSeq(item, Len(joined) + 1, Len(item))
       ELSE item

_drop_suffix_from_str(item, suffix, divider) ==
    LET joined == suffix \o divider
    IN IF endswith(item, joined) THEN removesuffix(item, joined) ELSE item

\* a call that names a positional-only parameter by keyword: Python raises
\* TypeError while binding the arguments, before the body runs
PositionalOnlyByKeyword(result) == Raise("TypeError")

(***************************************************************************)
(* filters.py: the matchers.  Each returns None or the pair                *)
(* <<matching str, matching term>>.                                        *)
(***************************************************************************)
RECURSIVE match_all(_, _, _, _)
match_all(item, terms, excise, divider) ==
    IF terms = <<>> THEN None
    ELSE IF item = Head(terms) THEN Return(<<item, Head(terms)>>)
    ELSE match_all(item, Tail(terms), excise, divider)

RECURSIVE match_prefix(_, _, _, _)
match_prefix(item, terms, excise, divider) ==
    IF terms = <<>> THEN None
    ELSE LET term == Head(terms)
             substring == term \o divider
         IN IF startswith(item, substring)
            THEN IF excise
                 THEN LET dropped == PositionalOnlyByKeyword(
                              _drop_prefix_from_str(item, substring, ""))
                      IN IF dropped.kind = "raise" THEN dropped
                         ELSE Return(<<dropped.val, term>>)
                 ELSE Return(<<item, term>>)
            ELSE match_prefix(item, Tail(terms), excise, divider)

RECURSIVE match_suffix(_, _, _, _)
match_suffix(item, terms, excise, divider) ==
    IF terms = <<>> THEN None
    ELSE LET term == Head(terms)
             substring == divider \o term
         IN IF endswith(item, substring)
            THEN IF excise
                 THEN LET excised_term == PositionalOnlyByKeyword(
                              _drop_suffix_from_str(item, substring, ""))
                      IN IF excised_term.kind = "raise" THEN excised_term
                         ELSE Return(<<excised_term.val, term>>)
                 ELSE Return(<<item, term>>)
            ELSE match_suffix(item, Tail(terms), excise, divider)

Scopes == {"all", "prefix", "suffix"}

\* filters.match: dispatches on scope through globals()
match(item, terms, scope, excise, divider) ==
    CASE scope = "all" -> match_all(item, terms, excise, divider)
      [] scope = "prefix" -> match_prefix(item, terms, excise, divider)
      [] scope = "suffix" -> match_suffix(item, terms, excise, divider)
      [] OTHER -> Raise("KeyError")

(***************************************************************************)
(* parsers.py: the view functions.  Each looks a key up with               *)
(* filters.match(item = k, terms, excise, divider), so the scope it was    *)
(* given is not passed on and the matcher's default, "all", is used.  The  *)
(* parameter fm is the function that the module attribute filters.match    *)
(* names when the call runs: "match" after import, and "get_<returns>"     *)
(* once parse has assigned to it.  The get_ functions take no parameter    *)
(* named item, so calling one of them that way raises TypeError.           *)
(***************************************************************************)
Shapes ==
    {"contents", "keys", "kinds", "sections", "section_keys",
     "section_kinds"}

\* extensions.Parser: a dataclass of six fields
Parser(terms, scope, returns, excise, accumulate, divider) ==
    [terms |-> terms, scope |-> scope, returns |-> returns,
     excise |-> excise, accumulate |-> accumulate, divider |-> divider]

\* the class of the store has no Parser among its attributes
Unbound == Parser(<<>>, "all", "sections", TRUE, TRUE, "")

filters_match_call(fm, item, terms, excise, divider) ==
    IF fm = "match" THEN match(item, terms, "all", excise, divider)
    ELSE Raise("TypeError")

\* the result of filters.match for every key of a dict, in order: in the
\* mode "all" a key that is no str is equal to no term
MatchEach(fm, settings, terms, excise, divider) ==
    [i \in 1..Len(settings.pairs) |->
        IF fm # "match" THEN Raise("TypeError")
        ELSE IF Len(settings.pairs[i]) = 3 THEN None
        ELSE filters_match_call(fm, settings.pairs[i][1], terms, excise,
                                divider)]

\* What a view function has in hand while it runs: settings, the mapping it
\* was given, and built, the list or dict that it builds.  Each statement of
\* the function gives the frame after it, and the function ends with what
\* it returns or raises and with the mapping as its statements have left it.
Frame(settings, built) == [settings |-> settings, built |-> built]

Effect(result, store) == [ret |-> result, contents |-> store]

\* built.append(value): the step of a list comprehension
Appended(frame, value) ==
    [frame EXCEPT !.built = PyList(Append(@.items, value))]

\* built[key] = value, had the function built its result in the mapping
\* that it was given
Stored_in_settings(frame, key, value) ==
    [frame EXCEPT !.built = DictSetKey(@, key, value),
                  !.settings = IF @.kind = "dict"
                               THEN DictSetKey(@, key, value) ELSE @]

\* built[key] = value: the step of a dict comprehension, and the assignment
\* matches[name] = ...
Stored(frame, key, value) ==
    [frame EXCEPT !.built = DictSetKey(@, key, value)]

Truthy(value) ==
    CASE value.kind = "dict" -> value.pairs # <<>>
      [] value.kind = "list" -> value.items # <<>>
      [] value.kind = "str" -> value.s # ""
      [] value.kind = "float" -> value.n # 0 \/ value.s # ""
      [] OTHER -> value.n # 0

\* what a comprehension puts into built for a key that filters.match
\* matched: the matching str in get_keys, the matching str with its term in
\* get_kinds, the matching str with the value of the key in get_sections
\* and in an entry of get_contents
Put(frame, shape, matched, value) ==
    CASE shape = "keys" -> Appended(frame, PyStr(matched[1]))
      [] shape = "kinds" ->
            Stored(frame, PyStr(matched[1]), PyStr(matched[2]))
      [] shape = "sections" -> Stored(frame, PyStr(matched[1]), value)

\* a comprehension from the i-th key on: found[i] is what filters.match
\* gave for the key and values[i] what the mapping holds at it; a call of
\* filters.match that raises ends the function
RECURSIVE Comprehended(_, _, _, _, _)
Comprehended(frame, shape, found, values, i) ==
    IF i > Len(found) THEN Effect(Return(frame.built), frame.settings)
    ELSE IF found[i].kind = "raise" THEN Effect(found[i], frame.settings)
    ELSE Comprehended(IF found[i].kind = "return"
                      THEN Put(frame, shape, found[i].val, values[i])
                      ELSE frame,
                      shape, found, values, i + 1)

\* get_keys: settings.keys() is called first, which only a mapping has
get_keys(fm, settings, terms, scope, excise, divider) ==
    IF settings.kind # "dict" THEN Effect(Raise("AttributeError"), settings)
    ELSE Comprehended(Frame(settings, PyList(<<>>)), "keys",
                      MatchEach(fm, settings, terms, excise, divider),
                      DictValues(settings), 1)

\* what "for k in settings" goes through: the keys of a dict, the
\* characters of a str, the items of a list
Iterated(settings) ==
    CASE settings.kind = "dict" ->
            [i \in 1..Len(settings.pairs) |-> KeyOf(settings.pairs[i])]
      [] settings.kind = "str" ->
            [i \in 1..Len(settings.s) |-> PyStr(SubSeq(settings.s, i, i))]
      [] settings.kind = "list" -> settings.items
      [] OTHER -> <<>>

\* filters.match(item = k, ...) for a k that "for k in settings" gave: in
\* the mode "all" only a str is equal to a term
MatchIterated(fm, settings, terms, excise, divider) ==
    [i \in 1..Len(Iterated(settings)) |->
        IF fm # "match" THEN Raise("TypeError")
        ELSE IF Iterated(settings)[i].kind = "str"
        THEN match(Iterated(settings)[i].s, terms, "all", excise, divider)
        ELSE None]

\* get_kinds: "for k in settings" iterates over whatever settings is, and
\* raises TypeError when it cannot be iterated over
get_kinds(fm, settings, terms, scope, excise, divider) ==
    IF settings.kind \notin {"dict", "str", "list"}
    THEN Effect(Raise("TypeError"), settings)
    ELSE Comprehended(Frame(settings, PyDict(<<>>)), "kinds",
                      MatchIterated(fm, settings, terms, excise, divider),
                      Iterated(settings), 1)

\* get_sections: settings.items() is called first
get_sections(fm, settings, terms, scope, excise, divider) ==
    IF settings.kind # "dict" THEN Effect(Raise("AttributeError"), settings)
    ELSE Comprehended(Frame(settings, PyDict(<<>>)), "sections",
                      MatchEach(fm, settings, terms, excise, divider),
                      DictValues(settings), 1)

\* the entry get_contents makes for one section: the matching keys with
\* their values.  section.keys() is called first
SectionContents(fm, section, terms, excise, divider) ==
    IF section.kind # "dict" THEN Effect(Raise("AttributeError"), section)
    ELSE Comprehended(Frame(section, PyDict(<<>>)), "sections",
                      MatchEach(fm, section, terms, excise, divider),
                      DictValues(section), 1)

\* what the loop of get_contents, get_section_keys or get_section_kinds
\* computes for one section
ForSection(fm, which, section, terms, scope, excise, divider) ==
    CASE which = "contents" ->
            SectionContents(fm, section, terms, excise, divider)
      [] which = "section_keys" ->
            get_keys(fm, section, terms, scope, excise, divider)
      [] which = "section_kinds" ->
            get_kinds(fm, section, terms, scope, excise, divider)

\* the loop over the sections, from the i-th on: matches[name] = ... for a
\* section when what is computed for it is not empty.  The section is the
\* object that the mapping holds, so the mapping shows what the computation
\* has left of it
RECURSIVE PerSection(_, _, _, _, _, _, _, _)
PerSection(fm, which, frame, i, terms, scope, excise, divider) ==
    IF i > Len(frame.settings.pairs)
    THEN Effect(Return(frame.built), frame.settings)
    ELSE LET got == ForSection(fm, which, frame.settings.pairs[i][2], terms,
                               scope, excise, divider)
             seen == [frame EXCEPT !.settings.pairs[i][2] = got.contents]
         IN IF got.ret.kind = "raise" THEN Effect(got.ret, seen.settings)
            ELSE PerSection(fm, which,
                            IF Truthy(got.ret.val)
                            THEN Stored(seen, KeyOf(frame.settings.pairs[i]),
                                        got.ret.val)
                            ELSE seen,
                            i + 1, terms, scope, excise, divider)

\* each of the three calls settings.items() first, and begins with
\* matches = {}
get_contents(fm, settings, terms, scope, excise, divider) ==
    IF settings.kind # "dict" THEN Effect(Raise("AttributeError"), settings)
    ELSE PerSection(fm, "contents", Frame(settings, PyDict(<<>>)), 1, terms,
                    scope, excise, divider)

get_section_keys(fm, settings, terms, scope, excise, divider) ==
    IF settings.kind # "dict" THEN Effect(Raise("AttributeError"), settings)
    ELSE PerSection(fm, "section_keys", Frame(settings, PyDict(<<>>)), 1,
                    terms, scope, excise, divider)

get_section_kinds(fm, settings, terms, scope, excise, divider) ==
    IF settings.kind # "dict" THEN Effect(Raise("AttributeError"), settings)
    ELSE PerSection(fm, "section_kinds", Frame(settings, PyDict(<<>>)), 1,
                    terms, scope, excise, divider)

\* globals()[f'get_{returns}'](settings = ..., terms = ..., ...)
get_returns(fm, returns, settings, terms, scope, excise, divider) ==
    CASE returns = "contents" ->
            get_contents(fm, settings, terms, scope, excise, divider)
      [] returns = "keys" ->
            get_keys(fm, settings, terms, scope, excise, divider)
      [] returns = "kinds" ->
            get_kinds(fm, settings, terms, scope, excise, divider)
      [] returns = "sections" ->
            get_sections(fm, settings, terms, scope, excise, divider)
      [] returns = "section_keys" ->
            get_section_keys(fm, settings, terms, scope, excise, divider)
      [] returns = "section_kinds" ->
            get_section_kinds(fm, settings, terms, scope, excise, divider)

\* the function filters.match names once parse has run
parse_binding(fm, returns) ==
    IF returns \in Shapes THEN "get_" \o returns ELSE fm

\* what parse returns of the matches that it was given: all of them with
\* accumulate, and the first of them without
parse_returns(matches, accumulate) ==
    IF matches.kind = "raise" THEN matches
    ELSE IF accumulate THEN matches
    ELSE IF matches.val.kind = "dict"
    THEN IF matches.val.pairs = <<>> THEN Raise("StopIteration")
         ELSE Return(matches.val.pairs[1][2])
    ELSE IF matches.val.items = <<>> THEN Raise("IndexError")
         ELSE Return(matches.val.items[1])

\* parsers.parse: what it returns or raises, and settings after the call
parse(fm, settings, terms, scope, returns, excise, accumulate, divider) ==
    IF returns \notin Shapes THEN Effect(Raise("KeyError"), settings)
    ELSE LET viewed == get_returns(parse_binding(fm, returns), returns,
                                   settings, terms, scope, excise, divider)
         IN Effect(parse_returns(viewed.ret, accumulate), viewed.contents)

(***************************************************************************)
(* core.py: what the construction of a Settings store does.                *)
(***************************************************************************)
\* Settings._infer_types: _typify on every value of every section, and on
\* every top-level value that is not a dict; contents.items() is called
\* first, which only a mapping has
_infer_types(given) ==
    IF given.kind # "dict" THEN Raise("AttributeError")
    ELSE Return(PyDict([i \in 1..Len(given.pairs) |->
             LET value == given.pairs[i][2]
             IN [given.pairs[i] EXCEPT ![2] =
                    IF value.kind = "dict"
                    THEN PyDict([j \in 1..Len(value.pairs) |->
                             [value.pairs[j] EXCEPT ![2] =
                                 _typify(value.pairs[j][2])]])
                    ELSE _typify(value)]]))

\* Settings._add_defaults: new_contents = self.defaults, then
\* new_contents.update(contents).  The result, and self.defaults after the
\* call
\* _add_defaults with the update turned round: the defaults written over
\* the given contents
_add_defaults_over_contents(stored_defaults, given) ==
    LET updated == dict_update(given, stored_defaults)
    IN IF updated.ret.kind = "raise" THEN Updated(updated.ret, stored_defaults)
       ELSE Updated(Return(updated.entry), updated.entry)

_add_defaults(stored_defaults, given) ==
    LET updated == dict_update(stored_defaults, given)
    IN IF updated.ret.kind = "raise" THEN updated
       ELSE Updated(Return(updated.entry), updated.entry)

\* Settings.__post_init__: the contents of the new store and self.defaults
\* after the call, or what it raises
\* the construction with its two steps exchanged: the defaults merged first
\* and the inference run over the merged result
post_init_merge_then_infer(given, stored_defaults, infer_types) ==
    LET merged == _add_defaults(stored_defaults, given)
    IN IF merged.ret.kind = "raise" \/ ~infer_types THEN merged
       ELSE Updated(_infer_types(merged.entry), merged.entry)

post_init_contents(given, stored_defaults, infer_types) ==
    LET inferred == IF infer_types THEN _infer_types(given) ELSE Return(given)
    IN IF inferred.kind = "raise" THEN Updated(inferred, stored_defaults)
       ELSE _add_defaults(stored_defaults, inferred.val)

(***************************************************************************)
(* core.py: the operations of a Settings store, and extensions.py: the     *)
(* Parser bound to it as a descriptor.  Each gives the result of the call  *)
(* and the contents of the store after it.                                 *)
(***************************************************************************)
\* __setitem__ and add update the entry that a store holds at a key with
\* dict_update (Python dict operations, above); when the update raises
\* after it has put some pairs into the entry, the store keeps them

\* Settings.__setitem__: self.contents[key].update(value), and
\* self.contents[key] = value when there is no such key
__setitem__(settings, key, value) ==
    IF DictHas(settings, key)
    THEN LET updated == dict_update(DictGet(settings, key), value)
         IN Effect(updated.ret, DictSet(settings, key, updated.entry))
    ELSE Effect(None, DictSet(settings, key, value))

\* Settings.add: self[section].update(contents), and self[section] =
\* contents on KeyError
add(settings, section, value) ==
    IF DictHas(settings, section)
    THEN LET updated == dict_update(DictGet(settings, section), value)
         IN Effect(updated.ret, DictSet(settings, section, updated.entry))
    ELSE __setitem__(settings, section, value)

\* Settings.delete, had it passed over a key that the store does not have
delete_suppressed(settings, item) ==
    IF DictHas(settings, item) THEN Effect(None, DictDel(settings, item))
    ELSE Effect(None, settings)

\* Settings.delete: del self.contents[item]
delete(settings, item) ==
    IF DictHas(settings, item) THEN Effect(None, DictDel(settings, item))
    ELSE Effect(Raise("KeyError"), settings)

\* Parser.__get__: parsers.parse(settings = settings, parse = self)
__get__(fm, settings, self) ==
    parse(fm, settings, self.terms, self.scope, self.returns, self.excise,
          self.accumulate, self.divider)

\* Parser.__set__: the key is the first that get_keys finds with scope
\* 'all' and excise False, or the first term when it finds none; with no
\* term either, self.terms[0] raises IndexError.  settings[key] = value
\* is Settings.__setitem__
__set__(fm, settings, self, value) ==
    LET keys == get_keys(fm, settings, self.terms, "all", FALSE, "")
    IN IF keys.ret.kind = "raise" THEN keys
       ELSE IF keys.ret.val.items = <<>> /\ self.terms = <<>>
       THEN Effect(Raise("IndexError"), keys.contents)
       ELSE LET key == IF keys.ret.val.items # <<>>
                       THEN keys.ret.val.items[1].s
                       ELSE self.terms[1]
            IN __setitem__(keys.contents, key, value)

(***************************************************************************)
(* Settings.inject.  An object is the dict of its attributes.              *)
(***************************************************************************)
\* utilities._iterify: nothing for None, a str as one item, the items of a
\* list, the keys of a dict, and anything else as one item
_iterify(item) ==
    CASE item.kind = "none" -> <<>>
      [] item.kind = "str" -> <<item>>
      [] item.kind = "list" -> item.items
      [] item.kind = "dict" ->
            [i \in 1..Len(item.pairs) |-> KeyOf(item.pairs[i])]
      [] OTHER -> <<item>>

\* Settings.inject, had it set an attribute only when instance lacks it or
\* overwrite is set, whatever the value of an attribute that it has
RECURSIVE inject_items_unless_present(_, _, _)
inject_items_unless_present(instance, kvs, overwrite) ==
    IF kvs = <<>> THEN Return(instance)
    ELSE IF Len(kvs[1]) = 3 THEN Raise("TypeError")
    ELSE inject_items_unless_present(
             IF ~DictHas(instance, kvs[1][1]) \/ overwrite
             THEN DictSet(instance, kvs[1][1], kvs[1][2])
             ELSE instance,
             Tail(kvs), overwrite)

\* the loop over the items of one section: setattr(instance, key, value)
\* when instance has no such attribute, or a falsy one, or overwrite is
\* set; hasattr raises TypeError for a key that is no str
RECURSIVE inject_items(_, _, _)
inject_items(instance, kvs, overwrite) ==
    IF kvs = <<>> THEN Return(instance)
    ELSE IF Len(kvs[1]) = 3 THEN Raise("TypeError")
    ELSE LET key == kvs[1][1]
             value == kvs[1][2]
         IN inject_items(
                IF \/ ~DictHas(instance, key)
                   \/ ~Truthy(DictGet(instance, key))
                   \/ overwrite
                THEN DictSet(instance, key, value)
                ELSE instance,
                Tail(kvs), overwrite)

\* the loop over the chosen sections: a section that the store does not
\* have is passed over (KeyError is suppressed), one that is not a mapping
\* has no items
RECURSIVE inject_sections(_, _, _, _)
inject_sections(settings, instance, sections, overwrite) ==
    IF sections = <<>> THEN Return(instance)
    ELSE LET section == Head(sections)
         IN IF section.kind \in {"list", "dict"} THEN Raise("TypeError")
            ELSE IF ~DictHasKey(settings, section)
            THEN inject_sections(settings, instance, Tail(sections),
                                 overwrite)
            ELSE IF DictGetKey(settings, section).kind # "dict"
            THEN Raise("AttributeError")
            ELSE LET injected ==
                         inject_items(instance,
                                      DictGetKey(settings, section).pairs,
                                      overwrite)
                 IN IF injected.kind = "raise" THEN injected
                    ELSE inject_sections(settings, injected.val,
                                         Tail(sections), overwrite)

\* Settings.inject: the sections are instance.name, when instance has a
\* name, and then those of additional; include_global is not used
inject(settings, instance, include_global, additional, overwrite) ==
    inject_sections(
        settings, instance,
        (IF DictHas(instance, "name")
         THEN <<DictGet(instance, "name")>> ELSE <<>>)
        \o (IF Truthy(additional) THEN _iterify(additional) ELSE <<>>),
        overwrite)

(***************************************************************************)
(* Settings.create.  A class is "Settings", which is abstract as written   *)
(* (it defines no __delitem__, __iter__ or __len__, and no _add_views), or *)
(* "Store", a subclass that supplies what Settings lacks.  Settings.       *)
(* defaults is one mapping for the class and its subclasses.               *)
(***************************************************************************)
Outcome(result, store, class_defaults) ==
    [ret |-> result, contents |-> store, defaults |-> class_defaults]

\* no store has been made
NoStore == [made |-> FALSE, contents |-> PyDict(<<>>), same |-> {}]

\* _validate_source(source, kind)
_validate_source(source, kinds) ==
    IF source.kind \in kinds THEN Return(source) ELSE Raise("TypeError")

\* Settings._integrate_defaults: new_contents = self.defaults, then
\* new_contents.update(contents): the mapping returned is self.defaults.
\* The result, and self.defaults after the call, which keeps the pairs
\* that update put into it before it raised
_integrate_defaults(class_defaults, given) ==
    LET updated == dict_update(class_defaults, given)
    IN IF updated.ret.kind = "raise" THEN updated
       ELSE Updated(Return(updated.entry), updated.entry)

\* cls(source): nothing is made of an abstract class; __post_init__ makes
\* self.defaults, updated in place, the contents of the new store.  The
\* contents of a store made before are that same dict, so that when the
\* update raises the earlier store shows the pairs that were put into it
\* before
__post_init__(cls, given, store, class_defaults) ==
    IF cls = "Settings" THEN Outcome(Raise("TypeError"), store, class_defaults)
    ELSE LET merged == _integrate_defaults(class_defaults, given)
         IN IF merged.ret.kind = "raise"
            THEN Outcome(merged.ret,
                         IF store = NoStore THEN store ELSE merged.entry,
                         merged.entry)
            ELSE Outcome(merged.ret, merged.entry, merged.entry)

\* dict.fromkeys(keys, value): value under every one of keys
dict_fromkeys(keys, value) ==
    DictFromPairs([i \in 1..Len(keys) |-> <<keys[i], value>>])

\* Settings.fromkeys(keys, value): cls(contents = dict.fromkeys(keys, value))
fromkeys(cls, keys, value, store, class_defaults) ==
    __post_init__(cls, dict_fromkeys(keys, value), store, class_defaults)

\* A store holds one dict object at several keys once fromkeys has put it
\* there, or once add or an assignment has been handed, for a key that the
\* store did not have, a dict that the store holds already: the store
\* keeps the object that it is handed (self.contents[key] = value).  The
\* sets of such keys, each of two keys or more, are kept beside the
\* contents.  The sets once the store holds something else at keys:
Unshared(shared_keys, keys) ==
    {c \in {d \ keys : d \in shared_keys} : Cardinality(c) > 1}

\* the sets once fromkeys has put value under keys: dict.fromkeys copies
\* nothing, so every key holds the one object, and when that is the dict
\* which the store holds at source, source and the keys that shared it hold
\* it as well
shared_by_fromkeys(shared_keys, keys, value, source) ==
    LET under == {keys[i] : i \in 1..Len(keys)}
        with == IF source = "" THEN {}
                ELSE {source} \cup UNION {c \in shared_keys : source \in c}
        one == under \cup with
    IN {c \in Unshared(shared_keys, under) : c \cap with = {}}
       \cup (IF value.kind = "dict" /\ Cardinality(one) > 1
             THEN {one} ELSE {})

\* the values that a call on the store can be handed: any of values as a
\* new object when source is "", and the dict that the store holds at the
\* key source otherwise
handed(settings, source, values) ==
    IF source = "" THEN values
    ELSE IF DictGet(settings, source).kind = "dict"
    THEN {DictGet(settings, source)}
    ELSE {}

\* the sets once a call that was handed the dict held at source has left
\* the store holding after, having held before: a key that the store did
\* not have holds the dict that was handed
shared_by_reference(shared_keys, before, after, source) ==
    LET put == KeySet(after) \ KeySet(before)
        with == {source} \cup UNION {c \in shared_keys : source \in c}
    IN IF source = "" \/ put = {} THEN shared_keys
       ELSE {c \in shared_keys : source \notin c} \cup {with \cup put}

\* the sets once the store holds settings: a deleted key holds nothing
still_shared(shared_keys, settings) ==
    Unshared(shared_keys, UNION shared_keys \ KeySet(settings))

\* what a store shows after a call that left it holding after, having held
\* before: entry.update(value) on the dict at one key changes the one
\* object, which is what the store holds at every key of the set
shown_at_every_key(shared_keys, before, after) ==
    LET updated(k) == /\ DictHas(before, k)
                      /\ DictHas(after, k)
                      /\ DictGet(before, k) # DictGet(after, k)
        with(k) == {j \in UNION shared_keys :
                       /\ updated(j)
                       /\ \E c \in shared_keys : j \in c /\ k \in c}
    IN PyDict([i \in 1..Len(after.pairs) |->
                  LET k == after.pairs[i][1]
                  IN IF Len(after.pairs[i]) = 3 \/ with(k) = {}
                     THEN after.pairs[i]
                     ELSE <<k, DictGet(after, CHOOSE j \in with(k) : TRUE)>>])
from_dict(cls, source, parsers, store, class_defaults) ==
    IF _validate_source(source, {"dict"}).kind = "raise"
    THEN Outcome(Raise("TypeError"), store, class_defaults)
    ELSE __post_init__(cls, source, store, class_defaults)

\* Settings.from_path(source, parameters, parsers): path.isfile() is not a
\* method of pathlib.Path
from_path(cls, source, parsers, store, class_defaults) ==
    IF _validate_source(source, {"str"}).kind = "raise"
    THEN Outcome(Raise("TypeError"), store, class_defaults)
    ELSE Outcome(Raise("AttributeError"), store, class_defaults)

\* The Python files that from_module is pointed at, and what each assigns
\* to settings: a mapping, a list of a pair and something that is no pair,
\* and nothing at all, for which NoSettings stands
NoSettings == PyStr("<no attribute settings>")

ModuleFiles == {"settings.py", "pairs.py", "bare.py"}

module_settings(name) ==
    CASE name = "settings.py" ->
            PyDict(<< <<"general", PyDict(<< <<"seed", PyInt(43)>> >>)>> >>)
      [] name = "pairs.py" ->
            PyList(<<PyList(<<PyStr("general"),
                              PyDict(<< <<"seed", PyInt(43)>> >>)>>),
                     PyInt(5)>>)
      [] name = "bare.py" -> NoSettings

\* Settings.from_module(source, parameters, parsers): importlib has a
\* loader for a path that ends in .py, .pyc or .so and gives no spec for
\* another, of which module_from_spec reads an attribute; the loader of an
\* extension module raises ImportError for a file that is not there and
\* the other two FileNotFoundError; import_module.settings is read before
\* cls is called
from_module(cls, source, parsers, store, class_defaults) ==
    IF _validate_source(source, {"str"}).kind = "raise"
    THEN Outcome(Raise("TypeError"), store, class_defaults)
    ELSE IF source.s \notin ModuleFiles /\ endswith(source.s, ".so")
    THEN Outcome(Raise("ImportError"), store, class_defaults)
    ELSE IF ~(endswith(source.s, ".py") \/ endswith(source.s, ".pyc"))
    THEN Outcome(Raise("AttributeError"), store, class_defaults)
    ELSE IF source.s \notin ModuleFiles
    THEN Outcome(Raise("FileNotFoundError"), store, class_defaults)
    ELSE IF module_settings(source.s) = NoSettings
    THEN Outcome(Raise("AttributeError"), store, class_defaults)
    ELSE __post_init__(cls, module_settings(source.s), store, class_defaults)

\* The ini files that from_ini is pointed at, and what ConfigParser.read
\* makes of each: the sections of a file, with every option a str, and
\* MissingSectionHeaderError for a file that begins with an option, as
\* bare.ini and the Python files do.  read skips a file that it cannot
\* open, and no section is read of one
IniFiles == {"settings.ini", "bare.ini"}

ini_sections(name) ==
    CASE name = "settings.ini" ->
            Return(PyDict(<< <<"general",
                              PyDict(<< <<"seed", PyStr("43")>> >>)>> >>))
      [] name \in {"bare.ini"} \cup ModuleFiles ->
            Raise("MissingSectionHeaderError")
      [] OTHER -> Return(PyDict(<<>>))

\* Settings.from_ini(source, parameters, parsers): without infer_types in
\* parameters configuration._TYPED_FORMATS is read, which the module does
\* not define; with it the sections are handed to cls as they were read,
\* and neither parameters nor parsers are
from_ini(cls, source, parameters, parsers, store, class_defaults) ==
    IF _validate_source(source, {"str"}).kind = "raise"
    THEN Outcome(Raise("TypeError"), store, class_defaults)
    ELSE IF ~(parameters.kind = "dict" /\ DictHas(parameters, "infer_types"))
    THEN Outcome(Raise("AttributeError"), store, class_defaults)
    ELSE IF ini_sections(source.s).kind = "raise"
    THEN Outcome(ini_sections(source.s), store, class_defaults)
    ELSE __post_init__(cls, ini_sections(source.s).val, store, class_defaults)

\* the class method that Settings.create hands source to
creator(source) ==
    CASE source.kind = "str" -> "from_path"
      [] source.kind = "dict" -> "from_dict"
      [] OTHER -> "none"

\* Settings.create, had it handed every source that is not a str to
\* from_dict
create_unchecked(cls, source, parsers, store, class_defaults) ==
    IF source.kind = "str"
    THEN from_path(cls, source, parsers, store, class_defaults)
    ELSE __post_init__(cls, source, store, class_defaults)

\* Settings.create(source, parameters, parsers); store is the contents of
\* the store made before, which are left when the call raises
create(cls, source, parsers, store, class_defaults) ==
    CASE creator(source) = "from_path" ->
            from_path(cls, source, parsers, store, class_defaults)
      [] creator(source) = "from_dict" ->
            from_dict(cls, source, parsers, store, class_defaults)
      [] OTHER -> Outcome(Raise("TypeError"), store, class_defaults)

\* Settings.add_parsers(parsers): Parsers[name] is an alias of the abstract
\* class Parsers, and calling it raises; with no parsers the store itself
\* is returned, for which None stands
add_parsers(bound, parsers) ==
    IF parsers = <<>> THEN [ret |-> None, parser |-> bound]
    ELSE [ret |-> Raise("TypeError"), parser |-> bound]

(***************************************************************************)
(* Settings.parse of src/bobbie/core.py, which __post_init__ calls last:   *)
(* each Parser of the parsers given to the store is set as an attribute of *)
(* the class.  bound is the attribute of the class that has the name       *)
(* looked at, and the result is that attribute after the call.             *)
(***************************************************************************)
RECURSIVE Settings_parse(_, _, _)
Settings_parse(bound, name, parsers) ==
    IF parsers = <<>> THEN bound
    ELSE Settings_parse(IF Head(parsers)[1] = name THEN Head(parsers)[2]
                        ELSE bound,
                        name, Tail(parsers))

(***************************************************************************)
(* Settings.subset.  The store it returns is new_dictionary: its contents, *)
(* and in same the sets of places at which it and the store it was taken   *)
(* from hold one dict, so that an update at one place is an update at      *)
(* every place of the set.  A place is a key of one of the two stores.     *)
(***************************************************************************)
\* what tells a key of a dict from its other keys: whether it is a str,
\* and its text
KeyMark(key) == <<key.kind = "str", key_text(key)>>

\* the keys of a dict, whatever they are
KeyMarks(d) == {KeyMark(KeyOf(d.pairs[i])) : i \in 1..Len(d.pairs)}

Subset(result, shared) == [ret |-> result, same |-> shared]

\* {k: self.contents[k] for k in include}: the values are not copied, a
\* key that the store lacks raises KeyError, and a list or dict cannot be
\* a key
RECURSIVE include_items(_, _, _)
include_items(settings, include, chosen) ==
    IF include = <<>> THEN Return(chosen)
    ELSE LET k == Head(include)
         IN IF k.kind \in {"list", "dict"} THEN Raise("TypeError")
            ELSE IF ~DictHasKey(settings, k) THEN Raise("KeyError")
            ELSE include_items(settings, Tail(include),
                               DictSetKey(chosen, k,
                                          DictGetKey(settings, k)))

\* {k: v for k, v in contents.items() if k not in exclude}
exclude_items(chosen, exclude) ==
    PyDict(SelectSeq(chosen.pairs,
                     LAMBDA kv : \A i \in 1..Len(exclude) :
                                    \/ exclude[i].kind \in {"list", "dict"}
                                    \/ ~SameKey(kv, exclude[i])))

\* Settings.subset, had it returned a copy of the whole store when neither
\* include nor exclude is given
subset_everything(settings, include, exclude) ==
    IF include.kind = "none"
    THEN Subset(Return(exclude_items(settings, _iterify(exclude))), {})
    ELSE LET chosen == include_items(settings, _iterify(include),
                                     PyDict(<<>>))
         IN IF chosen.kind = "raise" THEN Subset(chosen, {})
            ELSE LET kept == IF exclude.kind = "none" THEN chosen.val
                             ELSE exclude_items(chosen.val,
                                                _iterify(exclude))
                 IN Subset(Return(kept), KeyMarks(kept))

\* Settings.subset: the contents of the store it returns.  Without include
\* they are a deep copy of the store's; with include they are the values
\* the store holds at those keys
subset(settings, include, exclude) ==
    IF include.kind = "none" /\ exclude.kind = "none"
    THEN Subset(Raise("ValueError"), {})
    ELSE IF include.kind = "none"
    THEN Subset(Return(exclude_items(settings, _iterify(exclude))), {})
    ELSE LET chosen == include_items(settings, _iterify(include),
                                     PyDict(<<>>))
         IN IF chosen.kind = "raise" THEN Subset(chosen, {})
            ELSE LET kept == IF exclude.kind = "none" THEN chosen.val
                             ELSE exclude_items(chosen.val,
                                                _iterify(exclude))
                 IN Subset(Return(kept), KeyMarks(kept))

\* a key of settings, the store that subset was called on, or of
\* new_dictionary, and what stands for no place
Place(which, key) == <<which, KeyMark(key)>>

NoPlace == <<"", KeyMark(PyStr(""))>>

\* the places at which the two stores hold a dict
DictPlaces(which, d) ==
    {Place(which, KeyOf(d.pairs[i])) :
        i \in {j \in 1..Len(d.pairs) : d.pairs[j][2].kind = "dict"}}

\* what the stores hold at a place
HeldAt(settings, other, place) ==
    LET d == IF place[1] = "settings" THEN settings ELSE other
    IN d.pairs[CHOOSE i \in 1..Len(d.pairs) :
                  KeyMark(KeyOf(d.pairs[i])) = place[2]][2]

\* the sets of places once subset has returned kept, which holds at the
\* keys marked what settings holds there: the values of the comprehension
\* are the objects of the store (only a dict is ever changed in place)
shared_by_subset(kept, marks) ==
    {{p, <<"new_dictionary", p[2]>>} :
        p \in {q \in DictPlaces("settings", kept) : q[2] \in marks}}

\* the values that add on either store can be handed: any of values as a
\* new object when source is NoPlace, and the dict that is held at the
\* place source otherwise
handed_from(settings, other, source, values) ==
    IF source = NoPlace THEN values ELSE {HeldAt(settings, other, source)}

\* the places that hold the object which is held at place
same_as(same, place) == {place} \cup UNION {g \in same : place \in g}

\* the sets of places once the object handed, held at source, has been put
\* at place as well (self.contents[key] = value)
shared_at(same, source, place) ==
    IF source = NoPlace THEN same
    ELSE {g \in same : source \notin g}
         \cup {same_as(same, source) \cup {place}}

\* what the store named which shows once the object at the place at holds
\* value
shown_at_every_place(which, d, same, at, value) ==
    PyDict([i \in 1..Len(d.pairs) |->
               IF Place(which, KeyOf(d.pairs[i])) \in same_as(same, at)
               THEN [d.pairs[i] EXCEPT ![2] = value]
               ELSE d.pairs[i]])

\* the sets of keys at which settings holds one dict
shared_in_settings(same) ==
    {c \in {{p[2][2] : p \in {q \in g : q[1] = "settings"}} : g \in same} :
        Cardinality(c) > 1}

Both(result, settings, other) ==
    [ret |-> result, contents |-> settings, new_dictionary |-> other]

\* store.add(section, value) on the one of the two stores that which
\* names, value being the object held at source unless that is NoPlace:
\* section.update(value) changes the dict of an existing section, which
\* every place of its set shows, and a new section holds the object handed
add_to(which, settings, other, section, source, value) ==
    LET mine == IF which = "settings" THEN settings ELSE other.contents
        at == Place(which, PyStr(section))
        had == DictHas(mine, section)
    IN LET effect == add(mine, section, value)
       IN LET show(w, d) ==
                  IF had
                  THEN shown_at_every_place(w, d, other.same, at,
                                            DictGet(effect.contents, section))
                  ELSE d
          IN Both(effect.ret,
                  show("settings", IF which = "settings"
                                   THEN effect.contents ELSE settings),
                  [other EXCEPT
                     !.contents = show("new_dictionary",
                                       IF which = "settings" THEN @
                                       ELSE effect.contents),
                     !.same = IF ~had /\ DictHas(effect.contents, section)
                              THEN shared_at(@, source, at)
                              ELSE @])

(***************************************************************************)
(* workshop.py: the section_contents view.                                 *)
(***************************************************************************)
\* workshop.match_prefix and match_suffix, called with no divider
workshop_match_prefix(item, terms) ==
    \E i \in 1..Len(terms) : startswith(item, terms[i])

workshop_match_suffix(item, terms) ==
    \E i \in 1..Len(terms) : endswith(item, terms[i])

\* workshop.get_matching_outer_keys: globals()[f'match_{match}'] names
\* match_complete, match_prefix or match_suffix, and no function of the
\* module for "all"; then settings.keys() is called.  match_complete reads
\* camina.terms, not its parameter terms, and camina has no such attribute
get_matching_outer_keys(settings, terms, scope) ==
    IF scope \notin {"complete", "prefix", "suffix"} THEN Raise("KeyError")
    ELSE IF settings.kind # "dict" THEN Raise("AttributeError")
    \* a key that is no str has no startswith and no endswith
    ELSE IF /\ scope # "complete"
            /\ terms # <<>>
            /\ \E i \in 1..Len(settings.pairs) : Len(settings.pairs[i]) = 3
    THEN Raise("AttributeError")
    ELSE CASE scope = "prefix" ->
                 Return(SelectSeq(DictKeys(settings),
                                  LAMBDA k : workshop_match_prefix(k, terms)))
           [] scope = "suffix" ->
                 Return(SelectSeq(DictKeys(settings),
                                  LAMBDA k : workshop_match_suffix(k, terms)))
           [] scope = "complete" ->
                 IF settings.pairs = <<>> THEN Return(<<>>)
                 ELSE Raise("AttributeError")

\* relevant.update(settings[key]) for each key: relevant is the dict that
\* the function builds, and it keeps the pairs that an update put into it
\* before it raised
RECURSIVE UpdateWithSections(_, _)
UpdateWithSections(frame, names) ==
    IF names = <<>> THEN Effect(Return(frame.built), frame.settings)
    ELSE LET updated == dict_update(frame.built,
                                    DictGet(frame.settings, Head(names)))
         IN IF updated.ret.kind = "raise"
            THEN Effect(updated.ret, frame.settings)
            ELSE UpdateWithSections([frame EXCEPT !.built = updated.entry],
                                    Tail(names))

\* workshop.accumulate_outer_section_contents: relevant = {}, then the
\* loop over the matching keys
accumulate_outer_section_contents(settings, terms, scope) ==
    LET found == get_matching_outer_keys(settings, terms, scope)
    IN IF found.kind = "raise" THEN Effect(found, settings)
       ELSE UpdateWithSections(Frame(settings, PyDict(<<>>)), found.val)

(***************************************************************************)
(* Inputs of the model.                                                    *)
(***************************************************************************)
\* every string over an alphabet, up to a length
RECURSIVE Strings(_, _)
Strings(alphabet, n) ==
    IF n = 0 THEN {""}
    ELSE LET shorter == Strings(alphabet, n - 1)
         IN shorter \cup {x \o c : x \in shorter, c \in alphabet}

\* every sequence without repetition over a set, up to a length
DistinctSeqs(S, n) ==
    UNION {{q \in [1..m -> S] : \A i, j \in 1..m : q[i] = q[j] => i = j} :
           m \in 0..n}

\* every non-empty tuple over a set, up to a length
Tuples(S, n) == UNION {[1..m -> S] : m \in 1..n}

\* every dict with keys from K and values from V, up to n keys
Dicts(K, V, n) ==
    UNION {{PyDict([i \in 1..Len(ks) |-> <<ks[i], vs[i]>>]) :
                vs \in [1..Len(ks) -> V]} :
           ks \in DistinctSeqs(K, n)}

TypifyAlphabet == {"4", ".", ",", " ", "n", "o"}
TypifyExamples ==
    {"true", "True", "yes", "false", "No", "43", "500", "%.4f", "3, 4",
     "stop, drop, roll", "-4.50", "1e3", "1_0", "nan", "true, 4.5, no",
     "4", "4 , 4", "3e-324", "-1.4e-323", "1e-400", "1e400"}
RawStrings == Strings(TypifyAlphabet, MaxRawLen) \cup TypifyExamples
NonStrings ==
    {PyInt(43), PyBool(TRUE), PyFloat(45, -1),
     PyList(<<PyInt(3), PyInt(4)>>), PyList(<<PyStr("3"), PyStr("4")>>)}

MatchAlphabet == {"a", "x", "_"}
MatchItems == Strings(MatchAlphabet, MaxItemLen) \cup {"tasks_parameters"}
MatchTerms == {"a", "aa", "x", "parameters"}
Dividers == {"", "_"}

CreateSections == {"general", "files"}
CreateKeys == {"seed", "verbose"}
CreateValues == {PyStr("43"), PyStr("yes")}
CreateDicts ==
    Dicts(CreateSections, Dicts(CreateKeys, CreateValues, MaxKeys),
          MaxSections)
\* the defaults of a project: sections that give one option each, or none
DefaultSections ==
    {PyDict(<<>>)} \cup
    {PyDict(<< <<k, v>> >>) : k \in CreateKeys, v \in CreateValues}
DefaultDicts == Dicts(CreateSections, DefaultSections, MaxSections)
\* contents that are no mapping: a number, a str, and a list of one pair
NonMappings ==
    {PyInt(5), PyStr("ab"),
     PyList(<<PyList(<<PyStr("general"),
                       PyDict(<< <<"seed", PyStr("43")>> >>)>>)>>)}

ViewSections == {"tasks", "tasks_parameters", "parameters"}
ViewKeys == {"final_format", "format"}
ViewTerms == {"parameters", "format"}
\* a store whose values tell where they sit: section i, key j holds 10 i + j
ViewStores ==
    {PyDict([i \in 1..Len(names) |->
                <<names[i],
                  PyDict([j \in 1..Len(keyss[i]) |->
                             <<keyss[i][j], PyInt(10 * i + j)>>])>>]) :
        names \in DistinctSeqs(ViewSections, MaxSections),
        keyss \in [1..MaxSections -> DistinctSeqs(ViewKeys, MaxKeys)]}

StoreSections == {"tasks_parameters", "parameters"}
StoreKeys == {"a", "b"}
StoreLeaves == {PyInt(1), PyInt(2)}
\* a list that begins with a pair and goes on with something that is not
\* one: [("a", 1), 5]
PairThenInt == PyList(<<PyList(<<PyStr("a"), PyInt(1)>>), PyInt(5)>>)
\* what a caller hands to add or assigns to a parser attribute: a mapping,
\* or something that is not one
StoreValues ==
    Dicts(StoreKeys, StoreLeaves, MaxKeys) \cup {PyInt(5), PairThenInt}
\* the keys and the value that a caller hands to fromkeys
FromKeys == DistinctSeqs(StoreSections, MaxSections) \ {<<>>}
FromValues ==
    {PyDict(<<>>), PyDict(<<<<"a", PyInt(1)>>>>), PyInt(5)}
\* the parsers bound to the store: the sections whose name ends in
\* _parameters, the names of the sections that a term names, and a parser
\* that declares no term
BoundParsers ==
    {Parser(<<"parameters">>, "suffix", "sections", TRUE, TRUE, "_"),
     Parser(<<"tasks_parameters", "parameters">>, "all", "keys", FALSE,
            TRUE, ""),
     Parser(<<>>, "all", "keys", FALSE, TRUE, "")}

InjectSections == {"general", "files"}
InjectKeys == {"foo", "bar"}
InjectLeaves == {PyInt(0), PyInt(2)}
\* stores whose sections are mappings of options, or the integer 5
InjectStores ==
    Dicts(InjectSections,
          Dicts(InjectKeys, InjectLeaves, MaxKeys) \cup {PyInt(5)},
          MaxSections)
\* the objects injected into: with or without a name, and without foo, with
\* a falsy foo or with a truthy one
Instances ==
    {PyDict(name \o foo) :
        name \in {<<>>, <<<<"name", PyStr("general")>>>>},
        foo \in {<<>>, <<<<"foo", PyInt(0)>>>>, <<<<"foo", PyInt(1)>>>>}}
Additionals ==
    {PyNone, PyStr("files"), PyList(<<PyStr("files"), PyStr("general")>>)}

Classes == {"Settings", "Store"}
SourceKeys == {"key", "general"}
SourceValues == {PyStr("value"), PyDict(<< <<"verbose", PyStr("yes")>> >>)}
\* what create is given: a mapping, or None, 123, the name of a file or a
\* list of one pair
Sources ==
    Dicts(SourceKeys, SourceValues, MaxSections)
    \cup {PyNone, PyInt(123), PyStr("settings.ini"),
          PyList(<<PyList(<<PyStr("key"), PyStr("value")>>)>>)}
\* Settings.defaults as the class is written, and as a project may set it
ConfiguredDefaults ==
    {PyDict(<<>>),
     PyDict(<< <<"general", PyDict(<< <<"seed", PyStr("43")>> >>)>> >>)}
ParserNames == {<<>>, <<"parameters">>}
\* what from_module is given: the path of a module that is there, of one
\* that is not, of a file that is no module, and something that is no path
ModuleSources ==
    {PyStr(name) : name \in ModuleFiles \cup {"missing.py", "settings.ini"}}
    \cup {PyInt(123)}

\* what from_ini is given: the path of an ini file that is there, of one
\* that is not, of a file that is no ini file, and something that is no
\* path; and the parameters: None, a mapping without infer_types, and one
\* with it
IniSources ==
    {PyStr(name) : name \in IniFiles \cup {"missing.ini", "settings.py"}}
    \cup {PyInt(123)}
IniParameters ==
    {PyNone, PyDict(<<>>),
     PyDict(<< <<"infer_types", PyBool(FALSE)>> >>),
     PyDict(<< <<"infer_types", PyBool(TRUE)>> >>)}

SubsetSections == {"general", "files"}
\* what a section of the store is at first, and what add is given as a new
\* object: a mapping of options, or the integer 5
SubsetSectionValues ==
    {PyDict(<<>>), PyDict(<< <<"a", PyInt(1)>> >>), PyInt(5)}
SubsetValues == {PyDict(<< <<"b", PyInt(1)>> >>), PyInt(5)}
SubsetStores == Dicts(SubsetSections, SubsetSectionValues, MaxSections)
Includes ==
    {PyNone, PyStr("general"), PyList(<<PyStr("general"), PyStr("files")>>)}
Excludes == {PyNone, PyStr("files")}

\* the attribute name looked at, and the parsers a store may be given:
\* none, or one or two Parsers under names
BoundName == "view"
\* the contents a store is constructed from when its parsers are looked at
BindDicts ==
    {PyDict(<<>>),
     PyDict(<< <<"general", PyDict(<< <<"seed", PyStr("43")>> >>)>> >>),
     PyInt(5)}
GivenParsers ==
    {<<>>} \cup
    {<< <<n, p>> >> : n \in {BoundName, "other"}, p \in BoundParsers} \cup
    {<< <<"other", p>>, <<BoundName, q>> >> :
        p \in BoundParsers, q \in BoundParsers}

\* sections whose names end in different terms and begin alike
ExciseSections == {"x_a", "x_b"}
ExciseTerms == {"a", "b"}
ExciseStores ==
    Dicts(ExciseSections, {PyDict(<< <<"k", PyInt(1)>> >>)}, MaxSections)

(***************************************************************************)
(* SpecTypify: _typify applied to one item.                                *)
(***************************************************************************)
InitTypify ==
    /\ pc = "call"
    /\ args \in {[op |-> "typify", item |-> v] :
                    v \in {PyStr(r) : r \in RawStrings} \cup NonStrings}
    /\ ret = NoRet
    /\ contents = PyDict(<<>>)
    /\ defaults = PyDict(<<>>)
    /\ filters_match = "match"
    /\ parser = Unbound
    /\ new_dictionary = NoStore
    /\ sharing = {}

typify_call ==
    /\ pc = "call"
    /\ args.op = "typify"
    /\ ret' = Return(_typify(args.item))
    /\ pc' = "done"
    /\ UNCHANGED <<sharing, new_dictionary,
                 args, contents, defaults, filters_match, parser>>

NextTypify == typify_call

SpecTypify == InitTypify /\ [][NextTypify]_vars

(***************************************************************************)
(* SpecMatch: filters.match applied to one item.                           *)
(***************************************************************************)
InitMatch ==
    /\ pc = "call"
    /\ args \in [op : {"match"}, item : MatchItems,
                 terms : Tuples(MatchTerms, MaxTerms), scope : Scopes,
                 excise : BOOLEAN, divider : Dividers]
    /\ ret = NoRet
    /\ contents = PyDict(<<>>)
    /\ defaults = PyDict(<<>>)
    /\ filters_match = "match"
    /\ parser = Unbound
    /\ new_dictionary = NoStore
    /\ sharing = {}

match_call ==
    /\ pc = "call"
    /\ args.op = "match"
    /\ ret' = match(args.item, args.terms, args.scope, args.excise,
                    args.divider)
    /\ pc' = "done"
    /\ UNCHANGED <<sharing, new_dictionary,
                 args, contents, defaults, filters_match, parser>>

NextMatch == match_call

SpecMatch == InitMatch /\ [][NextMatch]_vars

(***************************************************************************)
(* SpecCreate: a store is constructed from contents, over the defaults.    *)
(***************************************************************************)
InitCreate ==
    /\ pc = "new"
    /\ args = [op |-> "none"]
    /\ ret = NoRet
    /\ contents = PyDict(<<>>)
    /\ defaults \in DefaultDicts
    /\ filters_match = "match"
    /\ parser = Unbound
    /\ new_dictionary = NoStore
    /\ sharing = {}

\* Settings(contents = given, defaults = defaults, infer_types = ...): the
\* dict that self.defaults names is updated in place and becomes the
\* contents of the store
post_init ==
    /\ pc = "new"
    /\ \E given \in CreateDicts \cup NonMappings, infer_types \in BOOLEAN :
          /\ args' = [op |-> "post_init", contents |-> given,
                      defaults |-> defaults, infer_types |-> infer_types]
          /\ \E made \in {post_init_contents(given, defaults, infer_types)} :
                /\ ret' = IF made.ret.kind = "raise" THEN made.ret ELSE None
                /\ contents' = IF made.ret.kind = "raise" THEN contents
                               ELSE made.ret.val
                /\ defaults' = made.entry
    /\ pc' = "done"
    /\ UNCHANGED <<sharing, new_dictionary, filters_match, parser>>

NextCreate == post_init

SpecCreate == InitCreate /\ [][NextCreate]_vars

(***************************************************************************)
(* SpecView: the views of a parser over a store.                           *)
(***************************************************************************)
InitView ==
    /\ pc = "ready"
    /\ args \in [op : {"parser"}, terms : Tuples(ViewTerms, MaxTerms),
                 scope : Scopes, returns : Shapes \cup {"section_contents"},
                 excise : BOOLEAN, accumulate : BOOLEAN, divider : Dividers]
    /\ ret = NoRet
    /\ contents \in ViewStores
    /\ defaults = PyDict(<<>>)
    /\ filters_match = "match"
    /\ parser = Unbound
    /\ new_dictionary = NoStore
    /\ sharing = {}

\* get_<returns>(settings, terms, scope, excise, divider) called directly
get_call ==
    /\ args.returns \in Shapes
    /\ \E made \in {get_returns(filters_match, args.returns, contents,
                                 args.terms, args.scope, args.excise,
                                 args.divider)} :
          /\ ret' = made.ret
          /\ contents' = made.contents
    /\ args' = [args EXCEPT !.op = "get"]
    /\ pc' = "done"
    /\ UNCHANGED <<sharing, new_dictionary, defaults, filters_match,
                   parser>>

\* parse(settings, terms = ..., scope = ..., returns = ..., ...)
parse_call ==
    /\ \E made \in {parse(filters_match, contents, args.terms, args.scope,
                           args.returns, args.excise, args.accumulate,
                           args.divider)} :
          /\ ret' = made.ret
          /\ contents' = made.contents
    /\ filters_match' = parse_binding(filters_match, args.returns)
    /\ args' = [args EXCEPT !.op = "parse"]
    /\ pc' = "done"
    /\ UNCHANGED <<sharing, new_dictionary, defaults, parser>>

\* workshop.accumulate_outer_section_contents(settings, terms, match)
accumulate_call ==
    /\ args.returns = "section_contents"
    /\ \E made \in {accumulate_outer_section_contents(contents, args.terms,
                                                       args.scope)} :
          /\ ret' = made.ret
          /\ contents' = made.contents
    /\ args' = [args EXCEPT !.op = "accumulate"]
    /\ pc' = "done"
    /\ UNCHANGED <<sharing, new_dictionary, defaults, filters_match, parser>>

NextView == get_call \/ parse_call \/ accumulate_call

SpecView == InitView /\ [][NextView]_vars

(***************************************************************************)
(* SpecExcise: the views of a parser over a store whose section names have *)
(* one remainder once the term that each ends in is cut off.               *)
(***************************************************************************)
InitExcise ==
    /\ pc = "ready"
    /\ args \in [op : {"parser"}, terms : Tuples(ExciseTerms, MaxTerms),
                 scope : Scopes, returns : Shapes \cup {"section_contents"},
                 excise : BOOLEAN, accumulate : BOOLEAN, divider : Dividers]
    /\ ret = NoRet
    /\ contents \in ExciseStores
    /\ defaults = PyDict(<<>>)
    /\ filters_match = "match"
    /\ parser = Unbound
    /\ new_dictionary = NoStore
    /\ sharing = {}

SpecExcise == InitExcise /\ [][NextView]_vars

(***************************************************************************)
(* SpecBind: stores constructed one after another in one process, each     *)
(* with the parsers it is given.  parser is the attribute BoundName of the *)
(* class, which is what every store of the class reads under that name;    *)
(* args.bound is that attribute before the construction, and args.others   *)
(* tells whether a store was constructed before.                           *)
(***************************************************************************)
InitBind ==
    /\ pc = "new"
    /\ args = [op |-> "none", contents |-> PyDict(<<>>),
               infer_types |-> FALSE, parsers |-> <<>>, bound |-> Unbound,
               others |-> FALSE]
    /\ ret = NoRet
    /\ contents = PyDict(<<>>)
    /\ defaults = PyDict(<<>>)
    /\ filters_match = "match"
    /\ parser = Unbound
    /\ new_dictionary = NoStore
    /\ sharing = {}

\* Settings(contents = given, infer_types = ..., parsers = ...)
construct ==
    /\ \E given \in BindDicts, infer_types \in BOOLEAN,
          parsers \in GivenParsers :
          /\ args' = [op |-> "construct", contents |-> given,
                      infer_types |-> infer_types, parsers |-> parsers,
                      bound |-> parser, others |-> (pc = "done")]
          /\ \E made \in {post_init_contents(given, PyDict(<<>>),
                                             infer_types)} :
                /\ ret' = IF made.ret.kind = "raise" THEN made.ret ELSE None
                /\ contents' = IF made.ret.kind = "raise" THEN contents
                               ELSE made.ret.val
                /\ defaults' = made.entry
                /\ parser' = IF made.ret.kind = "raise" THEN parser
                             ELSE Settings_parse(parser, BoundName, parsers)
                /\ pc' = IF made.ret.kind = "raise" THEN pc ELSE "done"
    /\ UNCHANGED <<sharing, filters_match, new_dictionary>>

NextBind == construct

SpecBind == InitBind /\ [][NextBind]_vars

(***************************************************************************)
(* SpecStore: a store with a bound parser, made anew by fromkeys, changed  *)
(* by add, delete and assignments to the parser attribute, and read        *)
(* through the attribute.                                                  *)
(* args.before is the contents of the store when the call was made.        *)
(***************************************************************************)
InitStore ==
    /\ pc = "ready"
    /\ args = [op |-> "none", key |-> "", value |-> PyDict(<<>>),
               before |-> PyDict(<<>>)]
    /\ ret = NoRet
    /\ contents = PyDict(<<>>)
    /\ defaults = PyDict(<<>>)
    /\ filters_match = "match"
    /\ parser \in BoundParsers
    /\ new_dictionary = NoStore
    /\ sharing = {}

\* a call on the store and what it does: the result is kept, and the store,
\* whose contents are the dict that Settings.defaults names, shows what
\* the call left at every key that holds the object it changed
DoesToStore(effect, source) ==
    /\ ret' = effect.ret
    /\ contents' = shown_at_every_key(sharing, contents, effect.contents)
    /\ defaults' = contents'
    /\ sharing' = still_shared(shared_by_reference(sharing, contents,
                                                   effect.contents, source),
                               effect.contents)

\* Store.fromkeys(keys, value), with a new object for value or with the
\* dict that the store holds at a key: the store made is the one the model
\* goes on with; its contents are the dict that Settings.defaults names,
\* as were those of the store before it
fromkeys_call ==
    /\ \E keys \in FromKeys, source \in {""} \cup KeySet(contents) :
          \E value \in handed(contents, source, FromValues) :
             /\ args' = [op |-> "fromkeys", key |-> "", value |-> value,
                         before |-> contents, keys |-> keys]
             /\ \E made \in {fromkeys("Store", keys, value, contents,
                                       defaults)} :
                   /\ ret' = made.ret
                   /\ contents' = made.contents
                   /\ defaults' = made.defaults
             /\ sharing' = shared_by_fromkeys(sharing, keys, value, source)
    /\ pc' = "done"
    /\ UNCHANGED <<new_dictionary, filters_match, parser>>

\* settings.add(section, value), with a new object for value or with the
\* dict that the store holds at a key
add_call ==
    /\ \E section \in StoreSections, source \in {""} \cup KeySet(contents) :
          \E value \in handed(contents, source, StoreValues) :
             /\ args' = [op |-> "add", key |-> section, value |-> value,
                         before |-> contents]
             /\ DoesToStore(add(contents, section, value), source)
    /\ pc' = "done"
    /\ UNCHANGED <<new_dictionary, filters_match, parser>>

\* settings.delete(item)
delete_call ==
    /\ \E item \in StoreSections :
          /\ args' = [op |-> "delete", key |-> item, value |-> PyDict(<<>>),
                      before |-> contents]
          /\ DoesToStore(delete(contents, item), "")
    /\ pc' = "done"
    /\ UNCHANGED <<new_dictionary, filters_match, parser>>

\* a read of the parser attribute: settings.<name>
parser_get ==
    /\ args' = [op |-> "get", key |-> "", value |-> PyDict(<<>>),
                before |-> contents]
    /\ DoesToStore(__get__(filters_match, contents, parser), "")
    /\ filters_match' = parse_binding(filters_match, parser.returns)
    /\ pc' = "done"
    /\ UNCHANGED <<new_dictionary, parser>>

\* an assignment to the parser attribute: settings.<name> = value, with a
\* new object for value or with the dict that the store holds at a key
parser_set ==
    /\ \E source \in {""} \cup KeySet(contents) :
          \E value \in handed(contents, source, StoreValues) :
             /\ args' = [op |-> "set", key |-> "", value |-> value,
                         before |-> contents]
             /\ DoesToStore(__set__(filters_match, contents, parser, value),
                            source)
    /\ pc' = "done"
    /\ UNCHANGED <<new_dictionary, filters_match, parser>>

NextStore ==
    fromkeys_call \/ add_call \/ delete_call \/ parser_get \/ parser_set

SpecStore == InitStore /\ [][NextStore]_vars

(***************************************************************************)
(* Injection of the options of a store into an object.                     *)
(***************************************************************************)
InitInject ==
    /\ pc = "ready"
    /\ args = [op |-> "none"]
    /\ ret = NoRet
    /\ contents \in InjectStores
    /\ defaults = contents
    /\ filters_match = "match"
    /\ parser = Unbound
    /\ new_dictionary = NoStore
    /\ sharing = {}

\* settings.inject(instance, include_global, additional, overwrite)
inject_call ==
    /\ \E instance \in Instances, include_global \in BOOLEAN,
          additional \in Additionals, overwrite \in BOOLEAN :
          /\ args' = [op |-> "inject", instance |-> instance,
                      include_global |-> include_global,
                      additional |-> additional, overwrite |-> overwrite]
          /\ ret' = inject(contents, instance, include_global, additional,
                           overwrite)
    /\ pc' = "done"
    /\ UNCHANGED <<sharing, new_dictionary, contents, defaults, filters_match,
                   parser>>

NextInject == inject_call

SpecInject == InitInject /\ [][NextInject]_vars

(***************************************************************************)
(* The stores created in one process by Settings.create, by                *)
(* Settings.from_module and by Settings.from_ini.                          *)
(***************************************************************************)
InitProcess ==
    /\ pc = "new"
    /\ defaults \in ConfiguredDefaults
    /\ args = [op |-> "none", configured |-> defaults]
    /\ ret = NoRet
    /\ contents = PyDict(<<>>)
    /\ filters_match = "match"
    /\ parser = Unbound
    /\ new_dictionary = NoStore
    /\ sharing = {}

\* the contents of the store that the process has made, if it has made one
earlier_store == IF pc = "new" THEN NoStore ELSE contents

\* a construction and what it does: the store made is the one that the
\* model goes on with; pc is "new" until a store is made
Constructs(made) ==
    /\ ret' = made.ret
    /\ contents' = IF made.contents = NoStore THEN contents
                   ELSE made.contents
    /\ defaults' = made.defaults
    /\ pc' = IF made.ret.kind = "return" THEN "done" ELSE pc

\* cls.create(source, None, parsers)
create_call ==
    /\ \E cls \in Classes, source \in Sources, parsers \in ParserNames :
          /\ args' = [op |-> "create", cls |-> cls, source |-> source,
                      parsers |-> parsers, creator |-> creator(source),
                      defaults |-> defaults, configured |-> args.configured]
          /\ Constructs(create(cls, source, parsers, earlier_store,
                               defaults))
    /\ UNCHANGED <<sharing, new_dictionary, filters_match, parser>>

\* cls.from_module(source, None, parsers)
from_module_call ==
    /\ \E cls \in Classes, source \in ModuleSources,
          parsers \in ParserNames :
          /\ args' = [op |-> "from_module", cls |-> cls, source |-> source,
                      parsers |-> parsers, creator |-> "from_module",
                      defaults |-> defaults, configured |-> args.configured]
          /\ Constructs(from_module(cls, source, parsers, earlier_store,
                                    defaults))
    /\ UNCHANGED <<sharing, new_dictionary, filters_match, parser>>

\* cls.from_ini(source, parameters, parsers)
from_ini_call ==
    /\ \E cls \in Classes, source \in IniSources,
          parameters \in IniParameters, parsers \in ParserNames :
          /\ args' = [op |-> "from_ini", cls |-> cls, source |-> source,
                      parameters |-> parameters, parsers |-> parsers,
                      creator |-> "from_ini", defaults |-> defaults,
                      configured |-> args.configured]
          /\ Constructs(from_ini(cls, source, parameters, parsers,
                                 earlier_store, defaults))
    /\ UNCHANGED <<sharing, new_dictionary, filters_match, parser>>

\* settings.add_parsers(parsers), on a store that has been made
add_parsers_call ==
    /\ pc = "done"
    /\ \E parsers \in ParserNames :
          /\ args' = [op |-> "add_parsers", parsers |-> parsers,
                      defaults |-> defaults, configured |-> args.configured]
          /\ \E added \in {add_parsers(parser, parsers)} :
                /\ ret' = added.ret
                /\ parser' = added.parser
    /\ UNCHANGED <<sharing, new_dictionary, pc, contents, defaults,
                   filters_match>>

NextProcess ==
    create_call \/ from_module_call \/ from_ini_call \/ add_parsers_call

SpecProcess == InitProcess /\ [][NextProcess]_vars

(***************************************************************************)
(* SpecSubset: a store, the store that subset returned for it, and add     *)
(* called on the one and on the other, with a new object or with a dict    *)
(* that one of the two holds.  args.before and args.before2 are the        *)
(* contents of the two stores when the call was made.                      *)
(***************************************************************************)
InitSubset ==
    /\ pc = "ready"
    /\ args = [op |-> "none", key |-> "", value |-> PyNone,
               include |-> PyNone, exclude |-> PyNone,
               before |-> PyDict(<<>>), before2 |-> PyDict(<<>>)]
    /\ ret = NoRet
    /\ contents \in SubsetStores
    /\ defaults = contents
    /\ filters_match = "match"
    /\ parser = Unbound
    /\ new_dictionary = NoStore
    /\ sharing = {}

\* new_dictionary = settings.subset(include, exclude), until a call has
\* returned a store
subset_call ==
    /\ ~new_dictionary.made
    /\ \E include \in Includes, exclude \in Excludes :
          /\ args' = [op |-> "subset", key |-> "", value |-> PyNone,
                      include |-> include, exclude |-> exclude,
                      before |-> contents,
                      before2 |-> new_dictionary.contents]
          /\ \E made \in {subset(contents, include, exclude)} :
                /\ ret' = made.ret
                /\ new_dictionary' =
                      IF made.ret.kind = "return"
                      THEN [made |-> TRUE, contents |-> made.ret.val,
                            same |-> shared_by_subset(made.ret.val,
                                                      made.same)]
                      ELSE new_dictionary
    /\ pc' = "done"
    /\ UNCHANGED <<sharing, contents, defaults, filters_match, parser>>

\* the dicts that the two stores hold, and no place for a new object
HeldPlaces ==
    {NoPlace} \cup DictPlaces("settings", contents)
              \cup DictPlaces("new_dictionary", new_dictionary.contents)

\* an add on one of the two stores and what it does: Settings.defaults is
\* the contents of settings
AddsTo(both) ==
    /\ ret' = both.ret
    /\ contents' = both.contents
    /\ defaults' = both.contents
    /\ new_dictionary' = both.new_dictionary
    /\ sharing' = shared_in_settings(both.new_dictionary.same)

\* settings.add(section, value), once subset has returned a store, with a
\* new object for value or with a dict that one of the two stores holds
add_to_settings ==
    /\ new_dictionary.made
    /\ \E section \in SubsetSections, source \in HeldPlaces :
          \E value \in handed_from(contents, new_dictionary.contents,
                                   source, SubsetValues) :
             /\ args' = [op |-> "add", key |-> section, value |-> value,
                         include |-> PyNone, exclude |-> PyNone,
                         before |-> contents,
                         before2 |-> new_dictionary.contents]
             /\ AddsTo(add_to("settings", contents, new_dictionary,
                              section, source, value))
    /\ pc' = "done"
    /\ UNCHANGED <<filters_match, parser>>

\* new_dictionary.add(section, value), likewise
add_to_new_dictionary ==
    /\ new_dictionary.made
    /\ \E section \in SubsetSections, source \in HeldPlaces :
          \E value \in handed_from(contents, new_dictionary.contents,
                                   source, SubsetValues) :
             /\ args' = [op |-> "add2", key |-> section, value |-> value,
                         include |-> PyNone, exclude |-> PyNone,
                         before |-> contents,
                         before2 |-> new_dictionary.contents]
             /\ AddsTo(add_to("new_dictionary", contents, new_dictionary,
                              section, source, value))
    /\ pc' = "done"
    /\ UNCHANGED <<filters_match, parser>>

NextSubset == subset_call \/ add_to_settings \/ add_to_new_dictionary

SpecSubset == InitSubset /\ [][NextSubset]_vars

(***************************************************************************)
(* Claims about _typify (SpecTypify).                                      *)
(***************************************************************************)
IsNumber(text) == IsIntLiteral(text) \/ IsFloatLiteral(text)
IsTrueWord(text) == lower(text) \in {"true", "yes"}
IsFalseWord(text) == lower(text) \in {"false", "no"}
HasListDivider(text) ==
    \E i \in 1..(Len(text) - 1) : SubSeq(text, i, i + 1) = ", "

\* C4: _typify applies its rules in a fixed order: integer parse, then float
\* parse, then true/yes and false/no whatever the case, then a split on
\* ", " with every piece inferred in turn, and otherwise the string as it
\* is.  A string that parses as a number is never returned as a boolean or
\* a list, "3, 4" gives the list [3, 4], and an item that is not a string
\* is returned unchanged.
C4_TypifyOrder ==
    (pc = "done" /\ args.op = "typify") =>
        LET item == args.item
            out == ret.val
        IN /\ ret.kind = "return"
           /\ item.kind # "str" => out = item
           /\ item.kind = "str" =>
                /\ IsIntLiteral(item.s) =>
                      out.kind = "int" /\ out.n = IntValue(item.s)
                /\ (~IsIntLiteral(item.s) /\ IsFloatLiteral(item.s)) =>
                      out.kind = "float"
                /\ IsNumber(item.s) => out.kind \notin {"bool", "list"}
                /\ (~IsNumber(item.s) /\ IsTrueWord(item.s)) =>
                      out = PyBool(TRUE)
                /\ (~IsNumber(item.s) /\ IsFalseWord(item.s)) =>
                      out = PyBool(FALSE)
                /\ (/\ ~IsNumber(item.s)
                    /\ ~IsTrueWord(item.s)
                    /\ ~IsFalseWord(item.s)
                    /\ HasListDivider(item.s)) =>
                      /\ out.kind = "list"
                      /\ Len(out.items) = Len(split(item.s, ", "))
                      /\ \A i \in 1..Len(out.items) :
                            out.items[i] =
                                _typify(PyStr(split(item.s, ", ")[i]))
                /\ (/\ ~IsNumber(item.s)
                    /\ ~IsTrueWord(item.s)
                    /\ ~IsFalseWord(item.s)
                    /\ ~HasListDivider(item.s)) => out = item
                /\ item.s = "3, 4" => out = PyList(<<PyInt(3), PyInt(4)>>)
                /\ item.s = "43" => out = PyInt(43)

\* "3, 4" has been inferred and came back as a list of two integers
C4_Witness ==
    /\ pc = "done"
    /\ args.op = "typify"
    /\ args.item = PyStr("3, 4")
    /\ ret.kind = "return"
    /\ ret.val.kind = "list"
    /\ Len(ret.val.items) = 2

(***************************************************************************)
(* Claims about construction (SpecCreate).                                 *)
(***************************************************************************)
\* a store has been constructed from a mapping
Constructed ==
    /\ pc = "done"
    /\ args.op = "post_init"
    /\ args.contents.kind = "dict"
    /\ ret.kind # "raise"
HasLeaf(d, s, k) == DictHas(d, s) /\ DictHas(DictGet(d, s), k)
Leaf(d, s, k) == DictGet(DictGet(d, s), k)
\* the value the caller gave, as the construction reads it
Given(s, k) ==
    IF args.infer_types THEN _typify(Leaf(args.contents, s, k))
    ELSE Leaf(args.contents, s, k)

\* C1: for every section s and key k that both contents and defaults
\* define, the constructed store holds at [s][k] the value of contents
\* (as inferred, when infer_types is set), never the value of defaults
\* where the two differ.
C1_ContentsWin ==
    Constructed =>
        \A s \in CreateSections, k \in CreateKeys :
            (HasLeaf(args.contents, s, k) /\ HasLeaf(args.defaults, s, k)) =>
                /\ HasLeaf(contents, s, k)
                /\ Leaf(contents, s, k) = Given(s, k)
                /\ ~args.infer_types =>
                      Leaf(contents, s, k) = Leaf(args.contents, s, k)
                /\ Given(s, k) # Leaf(args.defaults, s, k) =>
                      Leaf(contents, s, k) # Leaf(args.defaults, s, k)

\* contents and defaults gave different values for the same key of the same
\* section, and the store holds the one of contents
C1_Witness ==
    /\ Constructed
    /\ ~args.infer_types
    /\ HasLeaf(args.contents, "general", "seed")
    /\ HasLeaf(args.defaults, "general", "seed")
    /\ Leaf(args.contents, "general", "seed") = PyStr("43")
    /\ Leaf(args.defaults, "general", "seed") = PyStr("yes")
    /\ Leaf(contents, "general", "seed") = PyStr("43")

\* C2: merging is key by key inside a section: a section named in both
\* defaults and contents holds, in the store, every key of the default
\* section that contents does not define, with its default value, together
\* with every key of the contents section; a default section that contents
\* does not name is in the store in full.
C2_KeyByKeyMerge ==
    Constructed =>
        \A s \in CreateSections :
            DictHas(args.defaults, s) =>
                /\ DictHas(contents, s)
                /\ ~DictHas(args.contents, s) =>
                      DictGet(contents, s) = DictGet(args.defaults, s)
                /\ DictHas(args.contents, s) =>
                      \A k \in CreateKeys :
                         /\ (/\ HasLeaf(args.defaults, s, k)
                             /\ ~HasLeaf(args.contents, s, k)) =>
                               /\ HasLeaf(contents, s, k)
                               /\ Leaf(contents, s, k) =
                                      Leaf(args.defaults, s, k)
                         /\ HasLeaf(args.contents, s, k) =>
                               HasLeaf(contents, s, k)

\* a section of both contents and defaults, whose default key contents does
\* not define, has been constructed
C2_Witness ==
    /\ Constructed
    /\ HasLeaf(args.defaults, "general", "verbose")
    /\ DictHas(args.contents, "general")
    /\ ~HasLeaf(args.contents, "general", "verbose")

\* C3 as stated: with infer_types set, every string leaf of the store,
\* whether it came from contents or from defaults, is the inference of the
\* original string.
C3_EveryLeafInferred ==
    (Constructed /\ args.infer_types) =>
        \A s \in CreateSections, k \in CreateKeys :
            /\ HasLeaf(args.contents, s, k) =>
                  Leaf(contents, s, k) = _typify(Leaf(args.contents, s, k))
            /\ (~DictHas(args.contents, s) /\ HasLeaf(args.defaults, s, k)) =>
                  Leaf(contents, s, k) = _typify(Leaf(args.defaults, s, k))

\* C3 amended: with infer_types set, inference is applied to every leaf of
\* the given contents before the defaults are merged under them, so every
\* leaf that came from contents is the inference of the original ("43"
\* becomes 43, "yes" becomes True) and every section that came from the
\* defaults is stored as the defaults gave it, its strings not inferred.
C3_ContentsLeavesInferred ==
    (Constructed /\ args.infer_types) =>
        \A s \in CreateSections :
            /\ DictHas(args.contents, s) =>
                  /\ DictHas(contents, s)
                  /\ DictKeys(DictGet(contents, s)) =
                         DictKeys(DictGet(args.contents, s))
                  /\ \A k \in CreateKeys :
                        HasLeaf(args.contents, s, k) =>
                            Leaf(contents, s, k) =
                                _typify(Leaf(args.contents, s, k))
            /\ (~DictHas(args.contents, s) /\ DictHas(args.defaults, s)) =>
                  DictGet(contents, s) = DictGet(args.defaults, s)

\* a store constructed with infer_types whose contents gave "43" and whose
\* defaults alone gave the section files with the string "43": the first is
\* stored as 43 and the second as the string
C3_Witness ==
    /\ Constructed
    /\ args.infer_types
    /\ HasLeaf(args.contents, "general", "seed")
    /\ Leaf(args.contents, "general", "seed") = PyStr("43")
    /\ Leaf(contents, "general", "seed") = PyInt(43)
    /\ ~DictHas(args.contents, "files")
    /\ HasLeaf(args.defaults, "files", "seed")
    /\ Leaf(args.defaults, "files", "seed") = PyStr("43")
    /\ Leaf(contents, "files", "seed") = PyStr("43")

(***************************************************************************)
(* The matching rules as the documentation gives them, to set the code     *)
(* against.                                                                *)
(***************************************************************************)
ClaimedFits(item, term, scope, divider) ==
    CASE scope = "all" -> item = term
      [] scope = "prefix" -> startswith(item, term \o divider)
      [] scope = "suffix" -> endswith(item, divider \o term)

\* the place in terms of the earliest term that matches item, 0 if none does
ClaimedFirst(item, terms, scope, divider) ==
    IF \E i \in 1..Len(terms) : ClaimedFits(item, terms[i], scope, divider)
    THEN CHOOSE i \in 1..Len(terms) :
            /\ ClaimedFits(item, terms[i], scope, divider)
            /\ \A j \in 1..(i - 1) :
                  ~ClaimedFits(item, terms[j], scope, divider)
    ELSE 0

ClaimedResidual(item, term, scope, excise, divider) ==
    CASE ~excise \/ scope = "all" -> item
      [] excise /\ scope = "prefix" ->
            SubSeq(item, Len(term) + Len(divider) + 1, Len(item))
      [] excise /\ scope = "suffix" ->
            SubSeq(item, 1, Len(item) - Len(term) - Len(divider))

\* for the keys of d that match, in the order of d: residual, term, value
ClaimedEntries(d, terms, scope, excise, divider) ==
    LET hits == SelectSeq([i \in 1..Len(d.pairs) |-> i],
                    LAMBDA i : ClaimedFirst(d.pairs[i][1], terms, scope,
                                            divider) > 0)
    IN [h \in 1..Len(hits) |->
           LET key == d.pairs[hits[h]][1]
               term == terms[ClaimedFirst(key, terms, scope, divider)]
           IN <<ClaimedResidual(key, term, scope, excise, divider), term,
                d.pairs[hits[h]][2]>>]

ClaimedKeys(d, terms, scope, excise, divider) ==
    LET found == ClaimedEntries(d, terms, scope, excise, divider)
    IN PyList([i \in 1..Len(found) |-> PyStr(found[i][1])])

ClaimedSections(d, terms, scope, excise, divider) ==
    LET found == ClaimedEntries(d, terms, scope, excise, divider)
    IN DictFromPairs([i \in 1..Len(found) |-> <<found[i][1], found[i][3]>>])

\* the sections with at least one matching key, each cut down to those keys
ClaimedContents(d, terms, scope, excise, divider) ==
    PyDict(SelectSeq(
        [i \in 1..Len(d.pairs) |->
            <<d.pairs[i][1],
              ClaimedSections(d.pairs[i][2], terms, scope, excise, divider)>>],
        LAMBDA kv : kv[2].pairs # <<>>))

ClaimedSectionKeys(d, terms, scope, excise, divider) ==
    PyDict(SelectSeq(
        [i \in 1..Len(d.pairs) |->
            <<d.pairs[i][1],
              ClaimedKeys(d.pairs[i][2], terms, scope, excise, divider)>>],
        LAMBDA kv : kv[2].items # <<>>))

\* the contents of every matching section, poured into one dict in the
\* order of d
ClaimedSectionContents(d, terms, scope, divider) ==
    UpdateWithSections(Frame(d, PyDict(<<>>)),
        SelectSeq(DictKeys(d),
                  LAMBDA k : ClaimedFirst(k, terms, scope, divider) > 0)).ret.val

(***************************************************************************)
(* Claims about the matcher (SpecMatch).                                   *)
(***************************************************************************)
MatchDone == pc = "done" /\ args.op = "match"

\* C5: in prefix and suffix mode the matcher is first-term-wins: when
\* several terms match the same item the term returned is the earliest in
\* terms, not the longest, and the residual is computed from that term.
C5_FirstTermWins ==
    (MatchDone /\ args.scope \in {"prefix", "suffix"}) =>
        LET first == ClaimedFirst(args.item, args.terms, args.scope,
                                  args.divider)
        IN IF first = 0 THEN ret.kind = "none"
           ELSE /\ ret.kind = "return"
                /\ ret.val[2] = args.terms[first]
                /\ ret.val[1] = ClaimedResidual(args.item, args.terms[first],
                                    args.scope, args.excise, args.divider)

\* both "aa" and "a" are prefixes of the item, the shorter one comes first
\* in terms, excision is asked for, and the call has ended
C5_Witness ==
    /\ MatchDone
    /\ args.scope = "prefix"
    /\ args.item = "aaa"
    /\ args.terms = <<"a", "aa">>
    /\ args.excise
    /\ args.divider = ""
    /\ ret.kind = "raise"

\* C6: excision round-trips: a pair (residual, term) returned in suffix
\* mode with excise satisfies residual + divider + term = item, one
\* returned in prefix mode with excise satisfies term + divider + residual
\* = item, and without excise the residual returned is the item itself.
\* With divider "_" and term "parameters", suffix mode on
\* "tasks_parameters" gives residual "tasks" and term "parameters".
C6_ExciseRoundTrip ==
    MatchDone =>
        /\ (ret.kind = "return" /\ args.excise /\ args.scope = "suffix") =>
              ret.val[1] \o args.divider \o ret.val[2] = args.item
        /\ (ret.kind = "return" /\ args.excise /\ args.scope = "prefix") =>
              ret.val[2] \o args.divider \o ret.val[1] = args.item
        /\ (ret.kind = "return" /\ ~args.excise) => ret.val[1] = args.item
        /\ (/\ args.item = "tasks_parameters"
            /\ args.terms = <<"parameters">>
            /\ args.scope = "suffix"
            /\ args.excise
            /\ args.divider = "_") =>
              ret.kind = "return" /\ ret.val = <<"tasks", "parameters">>

\* the documented example has been run and ended in an exception
C6_Witness ==
    /\ MatchDone
    /\ args.item = "tasks_parameters"
    /\ args.terms = <<"parameters">>
    /\ args.scope = "suffix"
    /\ args.excise
    /\ args.divider = "_"
    /\ ret.kind = "raise"
    /\ ret.exc = "TypeError"

(***************************************************************************)
(* Claims about the views (SpecView).                                      *)
(***************************************************************************)
\* a view of shape has been computed, by its function or by parse with
\* accumulate set
Viewed(shape) ==
    /\ pc = "done"
    /\ args.returns = shape
    /\ args.op = "get" \/ (args.op = "parse" /\ args.accumulate)

\* C7: the sections shape returns a mapping with exactly one entry for each
\* section whose name matches the terms under the mode and divider, keyed
\* by the section name (the matched term and divider removed when excise
\* is set) and holding the full contents of the section; the other
\* sections are absent.
C7_SectionsShape ==
    Viewed("sections") =>
        /\ ret.kind = "return"
        /\ ret.val = ClaimedSections(contents, args.terms, args.scope,
                                     args.excise, args.divider)

\* get_sections has been called in suffix mode on a store with tasks and
\* tasks_parameters, and has returned a mapping without the section
C7_Witness ==
    /\ pc = "done"
    /\ args.op = "get"
    /\ args.returns = "sections"
    /\ args.terms = <<"parameters">>
    /\ args.scope = "suffix"
    /\ args.divider = "_"
    /\ DictKeys(contents) = <<"tasks", "tasks_parameters">>
    /\ ret.kind = "return"
    /\ ret.val = PyDict(<<>>)

\* C8: the contents shape returns, for each section with at least one inner
\* key that matches the terms under the mode, a mapping from each matching
\* inner key (excised when excise is set) to the key's value; the other
\* inner keys are left out and a section with no matching inner key does
\* not appear.
C8_ContentsShape ==
    Viewed("contents") =>
        /\ ret.kind = "return"
        /\ ret.val = ClaimedContents(contents, args.terms, args.scope,
                                     args.excise, args.divider)

\* get_contents has been called in suffix mode on a store whose section has
\* the key final_format, and has returned an empty mapping
C8_Witness ==
    /\ pc = "done"
    /\ args.op = "get"
    /\ args.returns = "contents"
    /\ args.terms = <<"format">>
    /\ args.scope = "suffix"
    /\ args.divider = "_"
    /\ ~args.excise
    /\ HasLeaf(contents, "tasks", "final_format")
    /\ ret.kind = "return"
    /\ ret.val = PyDict(<<>>)

\* C9: the keys shape returns the list, in store order, of the residual of
\* every section name that matches under the mode (exact, prefix or suffix
\* with the divider) and nothing else; the section_keys shape applies the
\* same rule to the inner keys of each section, in the key order of the
\* section.
C9_KeysShape ==
    /\ Viewed("keys") =>
          /\ ret.kind = "return"
          /\ ret.val = ClaimedKeys(contents, args.terms, args.scope,
                                   args.excise, args.divider)
    /\ Viewed("section_keys") =>
          /\ ret.kind = "return"
          /\ ret.val = ClaimedSectionKeys(contents, args.terms, args.scope,
                                          args.excise, args.divider)

\* get_keys has been called in prefix mode on a store whose only section
\* starts with the term and the divider, and has returned the empty list
C9_Witness ==
    /\ pc = "done"
    /\ args.op = "get"
    /\ args.returns = "keys"
    /\ args.terms = <<"parameters">>
    /\ args.scope = "suffix"
    /\ args.divider = "_"
    /\ ~args.excise
    /\ DictKeys(contents) = <<"tasks_parameters">>
    /\ ret.kind = "return"
    /\ ret.val = PyList(<<>>)

\* C10: the section_contents shape returns one flat mapping, the union of
\* the key/value pairs of every section whose name matches, taken in store
\* order, the value of the later section winning; in exact mode only a
\* section whose whole name equals a term contributes.
C10_SectionContentsShape ==
    (/\ pc = "done"
     /\ args.returns = "section_contents"
     /\ args.op = "accumulate" \/ (args.op = "parse" /\ args.accumulate)) =>
        /\ ret.kind = "return"
        /\ ret.val = ClaimedSectionContents(contents, args.terms, args.scope,
                                            args.divider)

\* the shape has been asked of parse in exact mode on a store with a
\* section named by a term, and the call has ended in KeyError
C10_Witness ==
    /\ pc = "done"
    /\ args.op = "parse"
    /\ args.accumulate
    /\ args.returns = "section_contents"
    /\ args.scope = "all"
    /\ args.terms = <<"parameters">>
    /\ DictHas(contents, "parameters")
    /\ ret.kind = "raise"
    /\ ret.exc = "KeyError"

(***************************************************************************)
(* Claims about accumulate (SpecView).                                     *)
(***************************************************************************)
\* parse has been called with accumulate as given
Parsed(accumulate) ==
    /\ pc = "done"
    /\ args.op = "parse"
    /\ args.accumulate = accumulate

\* nothing in d matches the terms of the call at the level its shape looks
\* at: the section names, or the inner keys of every section
ClaimedNothingMatches(d) ==
    IF args.returns \in {"keys", "kinds", "sections", "section_contents"}
    THEN ClaimedEntries(d, args.terms, args.scope, FALSE, args.divider) = <<>>
    ELSE \A i \in 1..Len(d.pairs) :
            ClaimedEntries(d.pairs[i][2], args.terms, args.scope, FALSE,
                           args.divider) = <<>>

\* C11: with accumulate=False parse returns only the entry of the first
\* match in store order: for the sections shape, the full contents of the
\* first section whose name matches, the mapping itself and not a
\* collection of one entry around it.
C11_FirstMatchOnly ==
    (/\ Parsed(FALSE)
     /\ args.returns = "sections"
     /\ ~ClaimedNothingMatches(contents)) =>
        /\ ret.kind = "return"
        /\ ret.val = ClaimedEntries(contents, args.terms, args.scope,
                                    args.excise, args.divider)[1][3]

\* parse has been called for the first section named by a term, in exact
\* mode, on a store that has such a section, and has ended in TypeError
C11_Witness ==
    /\ Parsed(FALSE)
    /\ args.returns = "sections"
    /\ args.scope = "all"
    /\ args.terms = <<"format", "parameters">>
    /\ DictHas(contents, "parameters")
    /\ ret.kind = "raise"
    /\ ret.exc = "TypeError"

\* C12: parse with accumulate=False on a store in which nothing matches
\* fails with an index or key error, for every shape; it never returns
\* None or an empty value.
C12_NoMatchRaises ==
    (Parsed(FALSE) /\ ClaimedNothingMatches(contents)) =>
        /\ ret.kind = "raise"
        /\ ret.exc \in {"IndexError", "KeyError"}

\* parse has been called with accumulate=False for the sections of an
\* empty store and has ended in StopIteration
C12_Witness ==
    /\ Parsed(FALSE)
    /\ args.returns = "sections"
    /\ contents = PyDict(<<>>)
    /\ ret.kind = "raise"
    /\ ret.exc = "StopIteration"

\* C13: parse with accumulate=True on a store in which nothing matches
\* returns an empty collection of the natural type of the shape: an empty
\* list for keys and section_keys, an empty mapping for every other shape.
C13_NoMatchEmpty ==
    (Parsed(TRUE) /\ ClaimedNothingMatches(contents)) =>
        /\ ret.kind = "return"
        /\ ret.val = IF args.returns \in {"keys", "section_keys"}
                     THEN PyList(<<>>)
                     ELSE PyDict(<<>>)

\* parse has been called with accumulate=True for the keys of a store whose
\* only section no term names, and has ended in TypeError
C13_Witness ==
    /\ Parsed(TRUE)
    /\ args.returns = "keys"
    /\ args.scope = "all"
    /\ args.terms = <<"parameters">>
    /\ DictKeys(contents) = <<"tasks">>
    /\ ret.kind = "raise"
    /\ ret.exc = "TypeError"

(***************************************************************************)
(* Claims about a store with a bound parser (SpecStore).                   *)
(***************************************************************************)
StoreDone(op) == pc = "done" /\ args.op = op

\* what the parser self is documented to show of the store d
ClaimedView(d, self) ==
    CASE self.returns = "sections" ->
            ClaimedSections(d, self.terms, self.scope, self.excise,
                            self.divider)
      [] self.returns = "keys" ->
            ClaimedKeys(d, self.terms, self.scope, self.excise, self.divider)

\* C14: a parser bound as a store attribute is never cached: after any
\* sequence of add, delete and assignments, a read of the attribute returns
\* the view of the store's current contents, so that a section added since
\* an earlier read appears in it and a deleted one does not.
C14_ReadIsFresh ==
    StoreDone("get") => ret = Return(ClaimedView(contents, parser))

\* the suffix parser has been read on a store that holds tasks_parameters,
\* and the read has raised instead of showing the section
C14_Witness ==
    /\ StoreDone("get")
    /\ parser.scope = "suffix"
    /\ DictHas(contents, "tasks_parameters")
    /\ ret = Raise("TypeError")

\* after holds what before held, but for the entry at key, which it has:
\* in its old place if before had it, last if not
WroteOnlyAt(before, after, key) ==
    /\ DictKeys(after) = IF DictHas(before, key) THEN DictKeys(before)
                         ELSE Append(DictKeys(before), key)
    /\ \A i \in 1..Len(before.pairs) :
          before.pairs[i][1] # key => after.pairs[i] = before.pairs[i]

\* the first key of d that the terms of self match under the scope and the
\* divider of self; the first of the terms when d has none
ClaimedKey(d, self) ==
    LET hits == SelectSeq(DictKeys(d),
                    LAMBDA k : ClaimedFirst(k, self.terms, self.scope,
                                            self.divider) > 0)
    IN IF hits # <<>> THEN hits[1] ELSE self.terms[1]

\* entry holds what value gives it: every pair of a mapping, and value
\* itself when it is no mapping
HoldsGiven(entry, value) ==
    IF value.kind = "dict" /\ entry.kind = "dict"
    THEN \A i \in 1..Len(value.pairs) :
            /\ DictHasKey(entry, KeyOf(value.pairs[i]))
            /\ DictGetKey(entry, KeyOf(value.pairs[i])) = value.pairs[i][2]
    ELSE entry = value

\* C15: an assignment of a mapping to a bound parser attribute writes to
\* the store key that the parser's terms match under the parser's own mode
\* and divider, and to a key named after the first declared term only when
\* no key matches: the store has that key, in its old place or last as a
\* new one, and no other new key, and the entry at it holds the pairs
\* assigned.
C15_ParserModeKey ==
    (StoreDone("set") /\ parser.terms # <<>> /\ args.value.kind = "dict") =>
        LET key == ClaimedKey(args.before, parser)
        IN /\ DictKeys(contents) = IF DictHas(args.before, key)
                                   THEN DictKeys(args.before)
                                   ELSE Append(DictKeys(args.before), key)
           /\ HoldsGiven(DictGet(contents, key), args.value)

\* the suffix parser with the term parameters has been assigned to on a
\* store that held tasks_parameters alone, and the store now has a section
\* parameters after it
C15_Witness ==
    /\ StoreDone("set")
    /\ parser.scope = "suffix"
    /\ DictKeys(args.before) = <<"tasks_parameters">>
    /\ ret = None
    /\ DictKeys(contents) = <<"tasks_parameters", "parameters">>
    /\ DictGet(contents, "tasks_parameters")
          = DictGet(args.before, "tasks_parameters")

\* entry is the mapping old updated with the mapping value: the keys of old
\* in their order, then the new keys of value in theirs; value wins on a
\* shared key and the other keys of old keep their value
MergedInto(old, value, entry) ==
    /\ entry.kind = "dict"
    /\ DictKeys(entry)
          = DictKeys(old) \o SelectSeq(DictKeys(value),
                                       LAMBDA k : ~DictHas(old, k))
    /\ \A i \in 1..Len(value.pairs) :
          DictGet(entry, value.pairs[i][1]) = value.pairs[i][2]
    /\ \A i \in 1..Len(old.pairs) :
          ~DictHas(value, old.pairs[i][1]) =>
              DictGet(entry, old.pairs[i][1]) = old.pairs[i][2]

\* C16: an assignment of a value to a bound parser attribute is a replace:
\* afterwards the entry at the key that the assignment resolved, whichever
\* key of the store that is, is equal to the value assigned, so that a key
\* which the section held before and the value does not have is gone, and
\* every other section is as it was.
C16_Replaces ==
    (StoreDone("set") /\ parser.terms # <<>>) =>
        \E key \in KeySet(contents) :
           /\ WroteOnlyAt(args.before, contents, key)
           /\ DictGet(contents, key) = args.value

\* a mapping with the key a has been assigned to the parser attribute of a
\* store whose section parameters held the key b alone, and the section
\* now holds b and a
C16_Witness ==
    /\ StoreDone("set")
    /\ ret = None
    /\ DictHas(args.before, "parameters")
    /\ DictKeys(DictGet(args.before, "parameters")) = <<"b">>
    /\ DictKeys(args.value) = <<"a">>
    /\ DictKeys(DictGet(contents, "parameters")) = <<"b", "a">>

(***************************************************************************)
(* The store under a view (SpecView).                                      *)
(***************************************************************************)
\* C17: computing a view never changes the store: for every shape, mode,
\* excise and accumulate setting, the section names, their order and every
\* section's keys and values are after parse, or after a getter, what they
\* were before the call, whether the call returns or raises.
C17_ViewsKeepStore == [][contents' = contents]_vars

\* a getter has returned a view with an entry in it for a store with a
\* section in it
C17_Witness ==
    /\ pc = "done"
    /\ args.op = "get"
    /\ contents.pairs # <<>>
    /\ ret.kind = "return"
    /\ Truthy(ret.val)

(***************************************************************************)
(* Claims about add and delete (SpecStore).                                *)
(***************************************************************************)
\* add has been called with a mapping, on a store whose entry for the
\* section, if it has one, is a mapping
AddedMapping ==
    /\ StoreDone("add")
    /\ args.value.kind = "dict"
    /\ DictHas(args.before, args.key) =>
          DictGet(args.before, args.key).kind = "dict"

\* C18: add(section, contents) with a section that exists leaves it holding
\* its previous keys updated with contents (contents wins on a shared key,
\* the other keys keep their value); with a section that does not exist it
\* leaves the store holding the section with exactly contents; either way
\* every other section is unchanged.
C18_AddMergesOrInserts ==
    AddedMapping =>
        /\ ret = None
        /\ WroteOnlyAt(args.before, contents, args.key)
        /\ IF DictHas(args.before, args.key)
           THEN MergedInto(DictGet(args.before, args.key), args.value,
                           DictGet(contents, args.key))
           ELSE DictGet(contents, args.key) = args.value

\* a mapping with the key b has been added to the section parameters of a
\* store that fromkeys made with one empty dict under tasks_parameters and
\* parameters: add has returned, and both sections hold the key b
C18_Witness ==
    /\ AddedMapping
    /\ args.key = "parameters"
    /\ sharing = {{"tasks_parameters", "parameters"}}
    /\ DictKeys(args.before) = <<"tasks_parameters", "parameters">>
    /\ DictGet(args.before, "tasks_parameters") = PyDict(<<>>)
    /\ DictGet(args.before, "parameters") = PyDict(<<>>)
    /\ DictKeys(args.value) = <<"b">>
    /\ ret = None
    /\ DictGet(contents, "parameters") = args.value
    /\ DictGet(contents, "tasks_parameters") = args.value

\* C19: add(section, contents) with contents that are not a mapping, such as
\* an integer, fails with a type error and leaves the store unchanged,
\* whether or not the store has the section.
C19_AddRejectsNonMapping ==
    (StoreDone("add") /\ args.value.kind # "dict") =>
        /\ ret = Raise("TypeError")
        /\ contents = args.before

\* the integer 5 has been added as a section that the store did not have:
\* add has returned and the store holds 5 as that section
C19_Witness ==
    /\ StoreDone("add")
    /\ args.value = PyInt(5)
    /\ ~DictHas(args.before, args.key)
    /\ ret = None
    /\ DictHas(contents, args.key)
    /\ DictGet(contents, args.key) = PyInt(5)

\* C20: delete(key) removes exactly the top-level entry key and leaves the
\* other entries, and their order, as they were; when the store has no such
\* key it raises KeyError and the store is unchanged.
C20_DeleteExactlyKey ==
    StoreDone("delete") =>
        IF DictHas(args.before, args.key)
        THEN /\ ret = None
             /\ ~DictHas(contents, args.key)
             /\ contents.pairs
                   = SelectSeq(args.before.pairs,
                               LAMBDA kv : kv[1] # args.key)
        ELSE /\ ret = Raise("KeyError")
             /\ contents = args.before

\* the first of two sections has been deleted and the second is all that the
\* store holds
C20_Witness ==
    /\ StoreDone("delete")
    /\ Len(args.before.pairs) = 2
    /\ args.key = args.before.pairs[1][1]
    /\ ret = None
    /\ contents.pairs = <<args.before.pairs[2]>>

(***************************************************************************)
(* Claims about inject (SpecInject).                                       *)
(***************************************************************************)
Injected == pc = "done" /\ args.op = "inject" /\ ret.kind = "return"

\* the names of the sections chosen for the call: the name of the
\* instance, then the additional ones
ChosenSections ==
    (IF DictHas(args.instance, "name")
     THEN <<DictGet(args.instance, "name").s>> ELSE <<>>)
    \o CASE args.additional.kind = "str" -> <<args.additional.s>>
         [] args.additional.kind = "list" ->
               [i \in 1..Len(args.additional.items) |->
                   args.additional.items[i].s]
         [] OTHER -> <<>>

\* the values that the chosen sections of the store have for key, in the
\* order of the sections
Offered(key) ==
    LET having == SelectSeq(ChosenSections,
                     LAMBDA name : /\ DictHas(contents, name)
                                   /\ DictHas(DictGet(contents, name), key))
    IN [i \in 1..Len(having) |-> DictGet(DictGet(contents, having[i]), key)]

\* C21: inject sets instance.key = value for a key/value pair of a chosen
\* section exactly when the instance lacks the attribute, or the attribute
\* is falsy, or overwrite is set, and otherwise the attribute keeps its
\* value: so an attribute no section offers is as it was, with overwrite
\* the last value offered stays, and without it a truthy attribute keeps
\* its own value while a missing or falsy one takes the first truthy value
\* offered (the last one when all are falsy).
C21_InjectRule ==
    Injected =>
        \A key \in InjectKeys \cup {"name"} :
           LET offered == Offered(key)
               had == DictHas(args.instance, key)
               truthy == SelectSeq(offered, Truthy)
           IN IF offered = <<>>
              THEN /\ DictHas(ret.val, key) = had
                   /\ had => DictGet(ret.val, key)
                                = DictGet(args.instance, key)
              ELSE /\ DictHas(ret.val, key)
                   /\ DictGet(ret.val, key) =
                         IF args.overwrite THEN offered[Len(offered)]
                         ELSE IF had /\ Truthy(DictGet(args.instance, key))
                         THEN DictGet(args.instance, key)
                         ELSE IF truthy # <<>> THEN truthy[1]
                         ELSE offered[Len(offered)]

\* an instance named general with foo = 1 has been injected, without
\* overwrite, from a store whose section general has foo = 2, and its foo
\* is still 1
C21_Witness ==
    /\ Injected
    /\ ~args.overwrite
    /\ DictHas(args.instance, "foo")
    /\ DictGet(args.instance, "foo") = PyInt(1)
    /\ ChosenSections = <<"general">>
    /\ Offered("foo") = <<PyInt(2)>>
    /\ DictGet(ret.val, "foo") = PyInt(1)

(***************************************************************************)
(* Claims about Settings.create (SpecProcess).                             *)
(***************************************************************************)
CreateCalled == args.op = "create"

\* C23: Settings.create(source) raises TypeError when source is neither a
\* str or path nor a mapping (None, 123), and makes nothing; a mapping is
\* handed to from_dict, which constructs the store directly and consults
\* no loader.
C23_CreateSourceTypes ==
    CreateCalled =>
        /\ args.source.kind \notin {"str", "dict"} =>
              /\ ret = Raise("TypeError")
              /\ defaults = args.defaults
        /\ args.source.kind = "dict" =>
              /\ args.creator = "from_dict"
              /\ ret # Raise("AttributeError")
              /\ args.cls = "Store" => ret.kind = "return"

\* create has been called on a class that can be instantiated with 123 as
\* its source, and has raised TypeError
C23_Witness ==
    /\ CreateCalled
    /\ args.cls = "Store"
    /\ args.source = PyInt(123)
    /\ ret = Raise("TypeError")

\* a store has been made by the call
Made == CreateCalled /\ ret.kind = "return"

\* C24: with no defaults configured, Settings.create of a mapping yields a
\* store whose contents equal the mapping, {} for an empty one, at every
\* creation of a sequence of creations in one process.
C24_ContentsEqualSource ==
    (CreateCalled /\ args.source.kind = "dict"
        /\ args.configured = PyDict(<<>>)) =>
        /\ ret.kind = "return"
        /\ contents = args.source

\* a store has been created from {} after one created from
\* {'key': 'value'}, and its contents are {'key': 'value'}
C24_Witness ==
    /\ Made
    /\ args.configured = PyDict(<<>>)
    /\ args.source = PyDict(<<>>)
    /\ contents = PyDict(<< <<"key", PyStr("value")>> >>)

\* C25: after Settings.create(source, parsers = P) every attribute name in P
\* is readable on the store that was made and is the parser of that name.
C25_ParsersReadable ==
    (Made /\ args.parsers # <<>>) => parser # Unbound

\* a store has been created with the parser name parameters, and no parser
\* is bound to its class
C25_Witness ==
    /\ Made
    /\ args.parsers = <<"parameters">>
    /\ args.source.pairs # <<>>
    /\ parser = Unbound

\* C27: constructing a store never changes the defaults mapping: after any
\* number of constructions the defaults are what was configured before the
\* first, so that a later store holds nothing that only the contents of an
\* earlier store gave, and no two stores share one contents mapping.
C27_DefaultsUnchanged ==
    CreateCalled =>
        /\ defaults = args.configured
        /\ Made => \A i \in 1..Len(contents.pairs) :
                      \/ DictHas(args.source, contents.pairs[i][1])
                      \/ DictHas(args.configured, contents.pairs[i][1])

\* a store has been created from a mapping without key, with defaults that
\* were configured without it, and it holds key: the defaults have become
\* the contents of the stores made so far
C27_Witness ==
    /\ Made
    /\ ~DictHas(args.source, "key")
    /\ ~DictHas(args.configured, "key")
    /\ DictHas(contents, "key")
    /\ DictHas(defaults, "key")
    /\ defaults = contents

(***************************************************************************)
(* Claims about subset (SpecSubset).                                       *)
(***************************************************************************)
\* the keys that an argument of subset names
Named(keys) == {_iterify(keys)[i].s : i \in 1..Len(_iterify(keys))}

SubsetCalled == pc = "done" /\ args.op = "subset"

\* at least one of include and exclude was given
OneGiven == args.include.kind # "none" \/ args.exclude.kind # "none"

\* the keys that the returned store is to have
Wanted ==
    (IF args.include.kind = "none" THEN KeySet(args.before)
     ELSE Named(args.include)) \ Named(args.exclude)

\* the call returned a store that has exactly the wanted keys, each with
\* the section that the original has
ReturnsWanted ==
    /\ ret.kind = "return"
    /\ new_dictionary.contents = ret.val
    /\ KeySet(ret.val) = Wanted
    /\ \A k \in Wanted : /\ DictHas(args.before, k)
                         /\ DictGet(ret.val, k) = DictGet(args.before, k)

\* C22 as claimed: subset(include, exclude), with at least one of the two
\* given, returns a new store whose keys are exactly the include keys (all
\* keys of the store when include is omitted) minus the exclude keys, each
\* mapped to the same section as in the original; the original is
\* unchanged; with both omitted the call fails.
C22_SubsetReturns ==
    SubsetCalled =>
        /\ contents = args.before
        /\ OneGiven => ReturnsWanted
        /\ ~OneGiven => ret.kind = "raise"

\* C22: the same, for a call whose include keys are all keys of the store;
\* when include names a key that the store lacks the call raises KeyError
\* and returns no store.  With both omitted the call raises ValueError.
C22_SubsetOfPresentKeys ==
    SubsetCalled =>
        /\ contents = args.before
        /\ ~OneGiven => ret = Raise("ValueError")
        /\ OneGiven /\ args.include.kind # "none"
              /\ ~(Named(args.include) \subseteq KeySet(args.before))
              => ret = Raise("KeyError")
        /\ OneGiven /\ (args.include.kind = "none"
                      \/ Named(args.include) \subseteq KeySet(args.before))
              => ReturnsWanted

\* subset was given include and exclude, and returned a store with the
\* included section that is not excluded
C22_Witness ==
    /\ SubsetCalled
    /\ args.include.kind = "list"
    /\ args.exclude.kind = "str"
    /\ ret.kind = "return"
    /\ KeySet(ret.val) = {"general"}
    /\ KeySet(args.before) = {"general", "files"}

\* add was called on the store named by on, and returned
Added(on) == pc = "done" /\ args.op = on /\ ret.kind = "none"

\* C28: a store that subset returned is independent of the original: add on
\* the returned store, for a section that both hold, changes nothing of
\* that section in the original, and add on the original changes nothing
\* in the returned store.
C28_SubsetIndependent ==
    /\ Added("add2") => contents = args.before
    /\ Added("add") => new_dictionary.contents = args.before2

\* add on the returned store updated a section that it holds, and the
\* section of the original has the added option too
C28_Witness ==
    /\ Added("add2")
    /\ args.key = "general"
    /\ args.value = PyDict(<< <<"b", PyInt(1)>> >>)
    /\ DictHas(args.before, "general")
    /\ DictGet(args.before, "general") = PyDict(<< <<"a", PyInt(1)>> >>)
    /\ DictGet(contents, "general") # DictGet(args.before, "general")
    /\ DictGet(contents, "general") =
          DictGet(new_dictionary.contents, "general")

(***************************************************************************)
(* Idempotence of _typify (SpecTypify).                                    *)
(***************************************************************************)
\* C26: type inference is idempotent: applied to what it returned for a
\* string, _typify returns that value again, and applied to a value that is
\* not a string, a list that an earlier inference produced included, it
\* returns the value as it is.  (The second call returns the object it is
\* given, so this holds of nan as well, which no == comparison finds equal
\* to itself.)
C26_TypifyIdempotent ==
    pc = "done" /\ args.op = "typify" =>
        /\ ret.kind = "return"
        /\ _typify(ret.val) = ret.val
        /\ args.item.kind # "str" => ret.val = args.item

\* a string was inferred to be a list of two numbers, which a second
\* inference leaves as it is
C26_Witness ==
    /\ pc = "done"
    /\ args.item = PyStr("3, 4")
    /\ ret.val = PyList(<<PyInt(3), PyInt(4)>>)
    /\ _typify(ret.val) = ret.val

(***************************************************************************)
(* Sections whose names share a remainder (SpecExcise).                    *)
(***************************************************************************)
\* a view was taken in prefix or suffix mode with excise set
ExcisedView(shape) ==
    /\ pc = "done"
    /\ args.op \in {"get", "parse"}
    /\ args.returns = shape
    /\ args.scope \in {"prefix", "suffix"}
    /\ args.excise

\* the number of sections whose names match a term in the parser's mode
Matching ==
    Len(ClaimedEntries(contents, args.terms, args.scope, FALSE,
                       args.divider))

\* C29: with excise in prefix or suffix mode no matching section is lost
\* from a mapping-shaped view: the sections and kinds views have one entry
\* for each matching section name, also when two names that match
\* different terms have the same remainder, and the keys view has as many.
C29_NoSectionLost ==
    /\ ExcisedView("sections") \/ ExcisedView("kinds") =>
          /\ ret.kind = "return"
          /\ ret.val.kind = "dict"
          /\ Len(ret.val.pairs) = Matching
    /\ ExcisedView("keys") =>
          /\ ret.kind = "return"
          /\ ret.val.kind = "list"
          /\ Len(ret.val.items) = Matching

\* the sections view was taken of a store that holds x_a and x_b, for the
\* suffix terms a and b with the divider _, and it has neither section
C29_Witness ==
    /\ ExcisedView("sections")
    /\ args.op = "get"
    /\ args.scope = "suffix"
    /\ args.terms = <<"a", "b">>
    /\ args.divider = "_"
    /\ KeySet(contents) = {"x_a", "x_b"}
    /\ Matching = 2
    /\ ret = Return(PyDict(<<>>))

(***************************************************************************)
(* The parsers of one store and the other stores of its class (SpecBind).  *)
(***************************************************************************)
StoreConstructed ==
    pc = "done" /\ args.op = "construct" /\ ret.kind # "raise"

\* C30: parser bindings are per store: a Parser bound under a name while
\* one store is created is neither added to nor put in the place of what
\* another store of the class has under that name, be the other store
\* created before or after.  So a store created before reads under the
\* name what it read before, and a store created without a Parser of that
\* name has none under it.
C30_BindingsPerStore ==
    StoreConstructed =>
        /\ args.others => parser = args.bound
        /\ (\A i \in 1..Len(args.parsers) : args.parsers[i][1] # BoundName)
              => parser = Unbound

\* a store was created with a Parser under the name while an earlier store
\* had another Parser under it, and the class now has the new one
C30_Witness ==
    /\ StoreConstructed
    /\ args.others
    /\ args.bound # Unbound
    /\ \E i \in 1..Len(args.parsers) :
          /\ args.parsers[i][1] = BoundName
          /\ args.parsers[i][2] # args.bound
          /\ parser = args.parsers[i][2]

====
